---- MODULE Spec2Model ----
(***************************************************************************)
(* A model of the ternary scale analysis library (ternary.js) and of the   *)
(* results page that drives it.  Words are sequences of step classes       *)
(* 0..2; JavaScript arrays are 0-based, TLA+ sequences 1-based, and At     *)
(* reads a sequence at a 0-based index.                                    *)
(***************************************************************************)
EXTENDS Integers, Sequences, FiniteSets, TLC

VARIABLES
    content,    \* necklacesFixedContent: the step signature passed in
    pc,         \* position of the running call
    sw,         \* sawadaMut: the arrays shared by the recursion and its call stack
    result,     \* necklacesFixedContent: the returned list
    inWord,     \* the word passed to a library function
    inAmount,   \* the amount passed to rotate
    called,     \* the library function that was called, "idle" before a call
    ret,        \* the value that call returned
    edArgs,     \* the arguments of edTuningsForTernary
    edResults,  \* the list edTuningsForTernary returned, <<>> before the call
    apiCall,    \* the call of sigResult or wordResult: function, query, options
    apiRet,     \* <<>> before that call returns, then the tuple of its result
    status,     \* results page: the text of the status element
    appState,   \* results page: the selected word, lattice basis, tuning, profile
    tables,     \* results page: the data shown in the scale and tuning tables
    lastQuery,  \* results page: the button clicked last and the input it read
    libCalls,   \* results page: the library calls made by the last click handler
    clicks,     \* results page: the number of button clicks so far
    hung        \* results page: TRUE when a click handler never returns

neckVars == <<content, pc, sw, result>>

wordVars == <<inWord, inAmount, called, ret>>

edVars == <<edArgs, edResults>>

apiVars == <<apiCall, apiRet>>

uiVars == <<status, appState, tables, lastQuery, libCalls, clicks, hung>>

vars == <<neckVars, wordVars, edVars, apiVars, uiVars>>

\* what the steps of one part of the program leave alone
notNeck == <<wordVars, edVars, apiVars, uiVars>>

notWord == <<neckVars, edVars, apiVars, uiVars>>

notEd == <<neckVars, wordVars, apiVars, uiVars>>

notApi == <<neckVars, wordVars, edVars, uiVars>>

notUi == <<neckVars, wordVars, edVars, apiVars>>

----------------------------------------------------------------------------
(* Bounds of the model *)

\* largest scale length (total number of steps) of an enumerated signature
MaxLen == 6

\* largest length of a word passed to the word functions
MaxWordLen == 5

\* largest absolute amount passed to rotate
MaxAmount == 6

\* largest edBound and largest count of a signature passed to edTuningsForTernary
MaxEdBound == 7

MaxEdCount == 2

\* largest number of steps of a signature passed to sigResult
MaxSigLen == 3

\* largest length of a word passed to wordResult
MaxApiWordLen == 2

\* the edBound option of a caller that asks for a bound below the default
MaxApiEdBound == 12

\* largest number of clicks on the two query buttons
MaxClicks == 1

\* largest number of numbers typed into the signature field, and the largest
\* of them
MaxSigTokens == 4

MaxTokenValue == 1

\* the data rows of the ED tuning table that are clicked
MaxRows == 4

\* largest length of a word whose guide frames are searched for a basis
MaxBasisLen == 6

\* largest a and b of darkestMosModeAndGenBresenham(a, b)
MaxMosCount == 8

\* largest count of one class in a signature given to mosSubstitutionScales
MaxSubstCount == 4

\* most steps of a signature given to sigResult with a complexity filter
MaxFilterLen == 6

\* largest value of the complexity filter
MaxComplexity == 3

\* largest class id and largest absolute count of a count vector given to
\* the CountVector methods
MaxCvClass == 1

MaxCvCount == 2

\* longest word given to wordToProfile and, spelled in letters, to wordResult
MaxProfileLen == 5
\* the longest word that the guide frames are also sought of when written twice
MaxHalfLen == 5

\* largest number of clicks on the two query buttons when the signature
\* query is made with the maximum-variety filter, the largest value of that
\* filter, and the largest number of numbers typed into the signature field
MaxSelectClicks == 2

MaxMvFilter == 1

MaxSelectTokens == 3

\* the step classes of a ternary scale
Classes == 0..2

----------------------------------------------------------------------------
(* Utility functions *)

At(s, i) == s[i + 1]

SetAt(s, i, v) == [s EXCEPT ![i + 1] = v]

Abs(x) == IF x < 0 THEN -x ELSE x

Min2(x, y) == IF x < y THEN x ELSE y

RECURSIVE SumSeq(_)
SumSeq(s) == IF s = <<>> THEN 0 ELSE Head(s) + SumSeq(Tail(s))

RECURSIVE gcdLoop(_, _)
gcdLoop(a, b) == IF b # 0 THEN gcdLoop(b, a % b) ELSE a

gcd(a, b) == gcdLoop(Abs(a), Abs(b))

\* ((n % m) + m) % m with JavaScript's truncating %
mod(n, m) ==
    LET jsrem == IF n >= 0 THEN n % m ELSE -((-n) % m)
    IN  (jsrem + m) % m

\* rotate with the second slice one element short
rotateShortSlice(arr, amount) ==
    IF Len(arr) = 0 THEN arr
    ELSE LET n == mod(amount, Len(arr))
         IN  IF n = 0 THEN arr
             ELSE SubSeq(arr, n + 1, Len(arr)) \o SubSeq(arr, 1, n - 1)

rotate(arr, amount) ==
    IF Len(arr) = 0 THEN arr
    ELSE LET n == mod(amount, Len(arr))
         IN  IF n = 0 THEN arr
             ELSE SubSeq(arr, n + 1, Len(arr)) \o SubSeq(arr, 1, n)

RECURSIVE compareFrom(_, _, _, _)
compareFrom(a, b, i, minLen) ==
    IF i >= minLen THEN Len(a) - Len(b)
    ELSE IF At(a, i) < At(b, i) THEN -1
    ELSE IF At(a, i) > At(b, i) THEN 1
    ELSE compareFrom(a, b, i + 1, minLen)

compareArrays(a, b) == compareFrom(a, b, 0, Min2(Len(a), Len(b)))

rotations(word) == [i \in 1..Len(word) |-> rotate(word, i - 1)]

----------------------------------------------------------------------------
(* Booth's algorithm *)

\* the while loop of booth: returns <<k, i>> at its exit
RECURSIVE boothWhile(_, _, _, _, _, _)
boothWhile(scale, n, j, k, i, f) ==
    IF i # -1 /\ At(scale, j % n) # At(scale, (k + i + 1) % n)
    THEN boothWhile(scale, n, j,
                    IF At(scale, j % n) < At(scale, (k + i + 1) % n)
                    THEN j - i - 1 ELSE k,
                    At(f, i), f)
    ELSE <<k, i>>

\* the for loop of booth, from index j on
RECURSIVE boothFor(_, _, _, _, _, _)
boothFor(scale, n, j, last, k, f) ==
    IF j >= last THEN k
    ELSE LET w  == boothWhile(scale, n, j, k, At(f, j - k - 1), f)
             k1 == w[1]
             i  == w[2]
         IN  IF i = -1 /\ At(scale, j % n) # At(scale, (k1 + i + 1) % n)
             THEN LET k2 == IF At(scale, j % n) < At(scale, (k1 + i + 1) % n)
                            THEN j ELSE k1
                  IN  boothFor(scale, n, j + 1, last, k2, SetAt(f, j - k2, -1))
             ELSE boothFor(scale, n, j + 1, last, k1, SetAt(f, j - k1, i + 1))

\* booth scanning the word once instead of the doubled word
boothSinglePass(scale) ==
    LET n == Len(scale)
    IN  boothFor(scale, n, 1, n, 0, [x \in 1..(2 * n) |-> -1])

booth(scale) ==
    LET n == Len(scale)
    IN  boothFor(scale, n, 1, 2 * n, 0, [x \in 1..(2 * n) |-> -1])

leastMode(scale) == rotate(scale, booth(scale))

----------------------------------------------------------------------------
(* CountVector: a Map from step classes to counts, modelled as a function   *)
(* whose domain is the set of keys present in the Map                       *)

ZERO == [k \in {} |-> 0]

fromSlice(arr) ==
    [k \in { arr[x] : x \in 1..Len(arr) } |->
        Cardinality({ x \in 1..Len(arr) : arr[x] = k })]

\* fromObject keeps every entry of the object, zero counts too
fromObject(obj) == [k \in DOMAIN obj |-> obj[k]]

get(cv, key) == IF key \in DOMAIN cv THEN cv[key] ELSE 0

\* keys of other whose sum is zero are deleted, the other keys of other are set
add(this, other) ==
    LET deleted == { k \in DOMAIN other : get(this, k) + other[k] = 0 }
    IN  [k \in (DOMAIN this \cup DOMAIN other) \ deleted |->
            IF k \in DOMAIN other THEN get(this, k) + other[k] ELSE this[k]]

neg(this) == [k \in DOMAIN this |-> -this[k]]

scalarMul(this, lambda) == [k \in DOMAIN this |-> lambda * this[k]]

RECURSIVE SumAbs(_, _)
SumAbs(cv, keys) ==
    IF keys = {} THEN 0
    ELSE LET k == CHOOSE x \in keys : TRUE
         IN  Abs(cv[k]) + SumAbs(cv, keys \ {k})

len(cv) == SumAbs(cv, DOMAIN cv)

equals(this, other) ==
    /\ Cardinality(DOMAIN this) = Cardinality(DOMAIN other)
    /\ \A k \in DOMAIN this : get(other, k) = this[k]

\* toString is the JSON text of the entries by ascending key: two vectors
\* have the same text exactly when they have the same keys and values
toString(cv) == cv

----------------------------------------------------------------------------
(* Intervals and maximum variety *)

RECURSIVE repeatSeq(_, _)
repeatSeq(s, times) == IF times <= 0 THEN <<>> ELSE s \o repeatSeq(s, times - 1)

wordOnDegree(scale, degree, subwordLength) ==
    LET rotated == rotate(scale, degree)
    IN  IF subwordLength <= Len(scale)
        THEN SubSeq(rotated, 1, subwordLength)
        ELSE repeatSeq(rotated, subwordLength \div Len(scale))
             \o SubSeq(rotated, 1, subwordLength % Len(scale))

dyadOnDegree(scale, degree, intervalClass) ==
    fromSlice(wordOnDegree(scale, degree, intervalClass))

\* the vectors of the distinct spectrum; its length is their number
distinctSpectrum(scale, subwordLength) ==
    { toString(dyadOnDegree(scale, degree, subwordLength)) :
        degree \in 0..(Len(scale) - 1) }

RECURSIVE maxVarFrom(_, _, _, _)
maxVarFrom(scale, subwordLength, floorHalf, maxVar) ==
    IF subwordLength > floorHalf THEN maxVar
    ELSE LET n == Cardinality(distinctSpectrum(scale, subwordLength))
         IN  maxVarFrom(scale, subwordLength + 1, floorHalf,
                        IF n > maxVar THEN n ELSE maxVar)

\* the variety of the subwords of half the length of the scale only
maximumVarietyAtHalf(scale) ==
    IF Len(scale) = 0 THEN 0
    ELSE maxVarFrom(scale, Len(scale) \div 2, Len(scale) \div 2, 0)

maximumVariety(scale) ==
    IF Len(scale) = 0 THEN 0
    ELSE maxVarFrom(scale, 1, Len(scale) \div 2, 0)

----------------------------------------------------------------------------
(* Word operations *)

stepVariety(scale) == Cardinality({ scale[x] : x \in 1..Len(scale) })

replace(scale, from, to) ==
    [x \in 1..Len(scale) |-> IF scale[x] = from THEN to ELSE scale[x]]

deleteStep(scale, letter) == SelectSeq(scale, LAMBDA x : x # letter)

reverse(word) == [x \in 1..Len(word) |-> word[Len(word) + 1 - x]]

monotoneLm(scale) == maximumVariety(replace(scale, 1, 0)) = 2

monotoneMs(scale) == maximumVariety(replace(scale, 2, 1)) = 2

monotoneS0(scale) == maximumVariety(deleteStep(scale, 2)) = 2

isMosSubst(scale, t, f1, f2) ==
    /\ stepVariety(scale) = 3
    /\ maximumVariety(deleteStep(scale, t)) = 2
    /\ maximumVariety(replace(scale, f1, f2)) = 2

chirality(word) ==
    LET cmp == compareArrays(leastMode(word), leastMode(reverse(word)))
    IN  IF cmp < 0 THEN "Right" ELSE IF cmp > 0 THEN "Left" ELSE "Achiral"

----------------------------------------------------------------------------
(* Guide frame analysis *)

\* the concatenation of ss[lo], ..., ss[hi]
RECURSIVE FlattenRange(_, _, _)
FlattenRange(ss, lo, hi) ==
    IF lo > hi THEN <<>>
    ELSE IF lo = hi THEN ss[lo]
    ELSE FlattenRange(ss, lo, (lo + hi) \div 2)
         \o FlattenRange(ss, (lo + hi) \div 2 + 1, hi)

Flatten(ss) == FlattenRange(ss, 1, Len(ss))

stackedKSteps(k, neck) ==
    [x \in 1..Len(neck) |-> fromSlice(wordOnDegree(neck, k * (x - 1), k))]

\* arr itself, whatever its period
weakPeriodCountVectorWhole(arr) == arr

\* the prefix of twice the length of the shortest period of arr
weakPeriodCountVectorTwice(arr) ==
    LET fits(l) == \A i \in 0..(Len(arr) - 1) : equals(At(arr, i), At(arr, i % l))
    IN  IF \E l \in 1..Len(arr) : fits(l)
        THEN SubSeq(arr, 1,
                 Min2(Len(arr), 2 * (CHOOSE l \in 1..Len(arr) :
                                         fits(l) /\ \A m \in 1..(l - 1) : ~fits(m))))
        ELSE arr

\* the shortest prefix that arr repeats periodically, or arr itself
weakPeriodCountVector(arr) ==
    LET fits(l) == \A i \in 0..(Len(arr) - 1) : equals(At(arr, i), At(arr, i % l))
    IN  IF \E l \in 1..Len(arr) : fits(l)
        THEN SubSeq(arr, 1, CHOOSE l \in 1..Len(arr) :
                                fits(l) /\ \A m \in 1..(l - 1) : ~fits(m))
        ELSE arr

\* one entry per rotation of the chain: the reduced prefix when the last
\* element differs from all the others, nothing otherwise
guidedGsChains(chain) ==
    LET n == Len(chain)
        one(rotation) ==
            LET last   == At(rotation, n - 1)
                prefix == SubSeq(rotation, 1, n - 1)
            IN  IF \E x \in 1..Len(prefix) : equals(prefix[x], last)
                THEN <<>>
                ELSE << weakPeriodCountVector(prefix) >>
    IN  Flatten([x \in 1..n |-> one(rotations(chain)[x])])

kStepGuidedGsList(k, neck) == guidedGsChains(stackedKSteps(k, neck))

\* the first rotation amount of vec2 that equals vec1, -1 for null
offsetVec(vec1, vec2) ==
    LET n == Len(vec1)
        matches(i) == \A j \in 1..n : equals(vec1[j], rotate(vec2, i)[j])
    IN  IF Len(vec1) # Len(vec2) THEN -1
        ELSE IF \E i \in 0..(n - 1) : matches(i)
        THEN CHOOSE i \in 0..(n - 1) : matches(i) /\ \A h \in 0..(i - 1) : ~matches(h)
        ELSE -1

GuideFrame(gs, polyoffset) == [gs |-> gs, polyoffset |-> polyoffset]

complexity(frame) == Len(frame.gs) * Len(frame.polyoffset)

multiplicity(frame) == Len(frame.polyoffset)

trySimple(scale, k) ==
    IF Len(scale) = 0 \/ gcd(Len(scale), k) # 1 THEN <<>>
    ELSE LET gsList == kStepGuidedGsList(k, scale)
         IN  [x \in 1..Len(gsList) |-> GuideFrame(gsList[x], <<ZERO>>)]

RECURSIVE sumFrom(_, _, _, _)
sumFrom(subscale, start, count, sum) ==
    IF count = 0 THEN sum
    ELSE sumFrom(subscale, start + 1, count - 1,
                 add(sum, At(subscale, start % Len(subscale))))

guidedGsListForSubscale(subscale) ==
    LET n == Len(subscale)
        stacked(k) == [x \in 1..n |-> sumFrom(subscale, (x - 1) * k, k, ZERO)]
        perK(k) == IF gcd(k, n) = 1 THEN guidedGsChains(stacked(k)) ELSE <<>>
    IN  IF n = 2 THEN << << At(subscale, 0) >> >>
        ELSE Flatten([x \in 1..((n \div 2) - 1) |-> perK(x + 1)])

\* Array.prototype.sort is stable: an insertion sort of <<key, item>> pairs
RECURSIVE insertStable(_, _)
insertStable(sorted, x) ==
    IF sorted = <<>> THEN <<x>>
    ELSE IF sorted[Len(sorted)][1] <= x[1] THEN Append(sorted, x)
    ELSE Append(insertStable(SubSeq(sorted, 1, Len(sorted) - 1), x),
                sorted[Len(sorted)])

RECURSIVE sortPairs(_, _)
sortPairs(pairs, sorted) ==
    IF pairs = <<>> THEN sorted
    ELSE sortPairs(Tail(pairs), insertStable(sorted, Head(pairs)))

\* items sorted by ascending keys, keys[x] being the key of items[x]
sortByKey(items, keys) ==
    LET sp == sortPairs([x \in 1..Len(items) |-> <<keys[x], items[x]>>], <<>>)
    IN  [x \in 1..Len(items) |-> sp[x][2]]

\* tryMultiple searching whenever gcd(k, n) is the multiplicity
tryMultipleAnyCoD(scale, mult, k) ==
    IF mult = 1 \/ Len(scale) = 0 \/ Len(scale) % mult # 0 THEN <<>>
    ELSE LET d   == gcd(k, Len(scale))
             coD == Len(scale) \div d
             subscales == [x \in 1..d |->
                              SubSeq(stackedKSteps(d, rotate(scale, x - 1)), 1, coD)]
             subscaleOnRoot == subscales[1]
             offset(i) == offsetVec(subscaleOnRoot, subscales[i + 1])
             pushed == [x \in 1..d |->
                          fromSlice(wordOnDegree(scale, 0, offset(x - 1) * d + (x - 1)))]
             offsets == sortByKey(pushed, [x \in 1..d |-> len(pushed[x])])
             gsList == guidedGsListForSubscale(subscaleOnRoot)
         IN  IF d = mult
             THEN IF \E i \in 0..(d - 1) : offset(i) = -1 THEN <<>>
                  ELSE IF Len(offsets) = 1 /\ equals(offsets[1], ZERO)
                  THEN [x \in 1..Len(gsList) |-> GuideFrame(gsList[x], <<ZERO>>)]
                  ELSE [x \in 1..Len(gsList) |-> GuideFrame(gsList[x], offsets)]
             ELSE <<>>

tryMultiple(scale, mult, k) ==
    IF mult = 1 \/ Len(scale) = 0 \/ Len(scale) % mult # 0 THEN <<>>
    ELSE LET d   == gcd(k, Len(scale))
             coD == Len(scale) \div d
             subscales == [x \in 1..d |->
                              SubSeq(stackedKSteps(d, rotate(scale, x - 1)), 1, coD)]
             subscaleOnRoot == subscales[1]
             offset(i) == offsetVec(subscaleOnRoot, subscales[i + 1])
             pushed == [x \in 1..d |->
                          fromSlice(wordOnDegree(scale, 0, offset(x - 1) * d + (x - 1)))]
             offsets == sortByKey(pushed, [x \in 1..d |-> len(pushed[x])])
             gsList == guidedGsListForSubscale(subscaleOnRoot)
         IN  IF coD % mult # 0 /\ d = mult
             THEN IF \E i \in 0..(d - 1) : offset(i) = -1 THEN <<>>
                  ELSE IF Len(offsets) = 1 /\ equals(offsets[1], ZERO)
                  THEN [x \in 1..Len(gsList) |-> GuideFrame(gsList[x], <<ZERO>>)]
                  ELSE [x \in 1..Len(gsList) |-> GuideFrame(gsList[x], offsets)]
             ELSE <<>>

\* the divisors pushed by the factor loop of guideFrames, in its order
factorsOf(n) ==
    LET perM(m) == IF m * m <= n /\ n % m = 0
                   THEN IF m # n \div m THEN <<m, n \div m>> ELSE <<m>>
                   ELSE <<>>
    IN  Flatten([x \in 1..(n - 1) |-> perM(x + 1)])

\* the first occurrence of every frame, two frames being the same when the
\* texts of their gs and polyoffset are the same
RECURSIVE dedupFrames(_, _)
dedupFrames(frames, unique) ==
    IF frames = <<>> THEN unique
    ELSE LET key(f) == <<[x \in 1..Len(f.gs) |-> toString(f.gs[x])],
                         [x \in 1..Len(f.polyoffset) |-> toString(f.polyoffset[x])]>>
             frame == Head(frames)
         IN  dedupFrames(Tail(frames),
                         IF \E x \in 1..Len(unique) : key(unique[x]) = key(frame)
                         THEN unique ELSE Append(unique, frame))

\* the sort by complexity without the removal of duplicates
sortedUniqueFramesKeepAll(results) ==
    sortByKey(results, [x \in 1..Len(results) |-> complexity(results[x])])

\* results.sort by complexity (stable), then the removal of duplicates
sortedUniqueFrames(results) ==
    dedupFrames(sortByKey(results, [x \in 1..Len(results) |-> complexity(results[x])]),
                <<>>)

\* the loop over the factors of n and over k from 2 to n - 2
multipleFrames(scale, factors, n) ==
    Flatten([y \in 1..Len(factors) |->
        Flatten([x \in 1..(n - 3) |-> tryMultiple(scale, factors[y], x + 1)])])

guideFrames(scale) ==
    LET n == Len(scale)
        simple == Flatten([x \in 1..(n - 3) |->
                      IF gcd(x + 1, n) = 1 THEN trySimple(scale, x + 1) ELSE <<>>])
    IN  sortedUniqueFrames(simple \o multipleFrames(scale, factorsOf(n), n))

\* a count vector as an object with the keys 0, 1, 2
cvToObj(cv) == [i \in 0..2 |-> get(cv, i)]

RECURSIVE addAll(_, _)
addAll(gs, acc) == IF gs = <<>> THEN acc ELSE addAll(Tail(gs), add(acc, Head(gs)))

\* guideFrameToResult reporting the first vector of gs as the aggregate and
\* the length of gs as the complexity
guideFrameToResultFirstOnly(structure) ==
    [gs           |-> [x \in 1..Len(structure.gs) |-> cvToObj(structure.gs[x])],
     aggregate    |-> cvToObj(structure.gs[1]),
     polyoffset   |-> [x \in 1..Len(structure.polyoffset) |->
                          cvToObj(structure.polyoffset[x])],
     multiplicity |-> multiplicity(structure),
     complexity   |-> Len(structure.gs)]

guideFrameToResult(structure) ==
    [gs           |-> [x \in 1..Len(structure.gs) |-> cvToObj(structure.gs[x])],
     aggregate    |-> cvToObj(addAll(structure.gs, ZERO)),
     polyoffset   |-> [x \in 1..Len(structure.polyoffset) |->
                          cvToObj(structure.polyoffset[x])],
     multiplicity |-> multiplicity(structure),
     complexity   |-> complexity(structure)]

\* an array [n0, n1, n2] read as det3 reads it
arrayVector(v) == [i \in 0..2 |-> At(v, i)]

\* det3 cut down to the first term of its expansion along v0
det3FirstTerm(v0, v1, v2) ==
    v0[0] * (v1[1] * v2[2] - v1[2] * v2[1])

det3(v0, v1, v2) ==
    v0[0] * v1[1] * v2[2] + v0[1] * v1[2] * v2[0] + v0[2] * v1[0] * v2[1]
    - v0[2] * v1[1] * v2[0] - v0[1] * v1[0] * v2[2] - v0[0] * v1[2] * v2[1]

toStepVectorObj(v) == [i \in 0..2 |-> v[i]]

\* the pairs getUnimodularBasis tests for one structure, in its order
testedPairs(structure, res) ==
    IF multiplicity(structure) = 1
    THEN Flatten([i \in 1..Len(res.gs) |->
             [y \in 1..(Len(res.gs) - i + 1) |-> <<res.gs[i], res.gs[i + y - 1]>>]])
         \o Flatten([x \in 1..Len(res.polyoffset) |->
             [y \in 1..Len(res.gs) |-> <<res.polyoffset[x], res.gs[y]>>]])
    ELSE IF Len(res.polyoffset) > 0
    THEN << <<res.gs[1], res.polyoffset[Len(res.polyoffset)]>> >>
    ELSE <<>>

\* null is the empty tuple, a basis the tuple <<v, w, result>>
RECURSIVE getUnimodularBasis(_, _)
getUnimodularBasis(structures, stepSig) ==
    IF structures = <<>> THEN <<>>
    ELSE LET res   == guideFrameToResult(Head(structures))
             pairs == testedPairs(Head(structures), res)
             unimodular(x) ==
                 Abs(det3(arrayVector(stepSig), pairs[x][1], pairs[x][2])) = 1
         IN  IF \E x \in 1..Len(pairs) : unimodular(x)
             THEN LET x == CHOOSE y \in 1..Len(pairs) :
                               unimodular(y) /\ \A z \in 1..(y - 1) : ~unimodular(z)
                  IN  <<toStepVectorObj(pairs[x][1]), toStepVectorObj(pairs[x][2]), res>>
             ELSE getUnimodularBasis(Tail(structures), stepSig)

----------------------------------------------------------------------------
(* Necklace enumeration: necklacesFixedContent and sawadaMut *)

\* indices (0-based) of the nonzero entries of content, ascending
letterMap(c) == SelectSeq([i \in 1..Len(c) |-> i - 1], LAMBDA i : At(c, i) > 0)

nonZeroContent(c) == [x \in 1..Len(letterMap(c)) |-> At(c, letterMap(c)[x])]

Arity(c) == Len(nonZeroContent(c))

ScaleLen(c) == SumSeq(nonZeroContent(c))

\* a sequence without its first occurrence of j (indexOf + splice)
RemoveFirst(s, j) ==
    IF \E x \in 1..Len(s) : s[x] = j
    THEN LET x == CHOOSE y \in 1..Len(s) : s[y] = j /\ \A z \in 1..(y - 1) : s[z] # j
         IN  SubSeq(s, 1, x - 1) \o SubSeq(s, x + 1, Len(s))
    ELSE s

\* j inserted before the first entry that is not greater than j
RECURSIVE insertIdxFrom(_, _, _)
insertIdxFrom(s, j, idx) ==
    IF idx < Len(s) /\ At(s, idx) > j THEN insertIdxFrom(s, j, idx + 1) ELSE idx

InsertDescending(s, j) ==
    LET idx == insertIdxFrom(s, j, 0)
    IN  SubSeq(s, 1, idx) \o <<j>> \o SubSeq(s, idx + 1, Len(s))

\* the state of necklacesFixedContent at its call of sawadaMut(.., 1, 1, 1, ..)
sawadaInit(c) ==
    LET arity    == Arity(c)
        scaleLen == ScaleLen(c)
        rem      == SetAt(nonZeroContent(c), 0, At(nonZeroContent(c), 0) - 1)
    IN  [remContent   |-> rem,
         runs         |-> [x \in 1..scaleLen |-> 0],
         availLetters |-> SelectSeq([x \in 1..arity |-> arity - x],
                                    LAMBDA i : ~(i = 0 /\ At(rem, 0) = 0)),
         a            |-> [x \in 1..scaleLen |-> IF x = 1 THEN 0 ELSE arity - 1],
         currColl     |-> <<>>,
         stack        |-> << [t |-> 1, p |-> 1, s |-> 1, at |-> "entry",
                              jIdx |-> 0, j |-> 0, wasLastOfKind |-> FALSE] >>]

Top(st) == st.stack[Len(st.stack)]

Pop(st) == SubSeq(st.stack, 1, Len(st.stack) - 1)

SetTop(st, fr) == [st.stack EXCEPT ![Len(st.stack)] = fr]

\* the acceptance test without the period condition
AcceptsAnyPeriod(st, fr, arity, scaleLen) ==
    At(st.remContent, arity - 1) >= At(st.runs, fr.t - fr.p)

\* the acceptance test of sawadaMut at a full-length word
Accepts(st, fr, arity, scaleLen) ==
    \/ /\ At(st.remContent, arity - 1) = At(st.runs, fr.t - fr.p)
       /\ scaleLen % fr.p = 0
    \/ At(st.remContent, arity - 1) > At(st.runs, fr.t - fr.p)

\* sawadaMut from its entry up to its return or to the head of its while loop
sawadaEnter(st, arity, scaleLen) ==
    LET fr == Top(st)
    IN  IF At(st.remContent, arity - 1) = scaleLen - fr.t
        THEN [st EXCEPT !.currColl = IF Accepts(st, fr, arity, scaleLen)
                                     THEN Append(st.currColl, st.a)
                                     ELSE st.currColl,
                        !.stack = Pop(st)]
        ELSE IF At(st.remContent, 0) # scaleLen - fr.t
        THEN IF Len(st.availLetters) > 0
             THEN [st EXCEPT !.stack =
                      SetTop(st, [fr EXCEPT !.at = "loop", !.jIdx = 0,
                                            !.j = At(st.availLetters, 0)])]
             ELSE [st EXCEPT !.a = SetAt(st.a, fr.t, arity - 1),
                             !.stack = Pop(st)]
        ELSE [st EXCEPT !.stack = Pop(st)]

\* the while test of sawadaMut and the loop body up to the recursive call
sawadaLoop(st, arity, scaleLen) ==
    LET fr == Top(st)
        j  == fr.j
    IN  IF j >= At(st.a, fr.t - fr.p)
        THEN LET wasLastOfKind == At(st.remContent, j) = 1
                 a1 == SetAt(st.a, fr.t, j)
             IN  [st EXCEPT
                    !.runs = SetAt(st.runs, fr.s, fr.t - fr.s),
                    !.availLetters = IF wasLastOfKind
                                     THEN RemoveFirst(st.availLetters, j)
                                     ELSE st.availLetters,
                    !.remContent = SetAt(st.remContent, j, At(st.remContent, j) - 1),
                    !.a = a1,
                    !.stack = SetTop(st, [fr EXCEPT !.at = "after",
                                             !.wasLastOfKind = wasLastOfKind])
                              \o << [t |-> fr.t + 1,
                                     p |-> IF j = At(a1, fr.t - fr.p) THEN fr.p ELSE fr.t + 1,
                                     s |-> IF j = arity - 1 THEN fr.s ELSE fr.t + 1,
                                     at |-> "entry", jIdx |-> 0, j |-> 0,
                                     wasLastOfKind |-> FALSE] >>]
        ELSE [st EXCEPT !.a = SetAt(st.a, fr.t, arity - 1),
                        !.stack = Pop(st)]

\* the next index of availLetters holding a letter smaller than j
RECURSIVE nextSmaller(_, _, _)
nextSmaller(avail, j, jIdx) ==
    IF jIdx < Len(avail) /\ At(avail, jIdx) >= j
    THEN nextSmaller(avail, j, jIdx + 1) ELSE jIdx

\* sawadaMut after the recursive call putting no letter back into
\* availLetters
sawadaAfterNoInsert(st, arity, scaleLen) ==
    LET fr    == Top(st)
        j     == fr.j
        avail == st.availLetters
        rem   == SetAt(st.remContent, j, At(st.remContent, j) + 1)
        jIdx  == nextSmaller(avail, j, fr.jIdx + 1)
    IN  IF jIdx >= Len(avail)
        THEN [st EXCEPT !.availLetters = avail, !.remContent = rem,
                        !.a = SetAt(st.a, fr.t, arity - 1),
                        !.stack = Pop(st)]
        ELSE [st EXCEPT !.availLetters = avail, !.remContent = rem,
                        !.stack = SetTop(st, [fr EXCEPT !.at = "loop", !.jIdx = jIdx,
                                                 !.j = At(avail, jIdx)])]

\* sawadaMut after the recursive call: backtrack and choose the next letter
sawadaAfter(st, arity, scaleLen) ==
    LET fr    == Top(st)
        j     == fr.j
        avail == IF fr.wasLastOfKind THEN InsertDescending(st.availLetters, j)
                 ELSE st.availLetters
        rem   == SetAt(st.remContent, j, At(st.remContent, j) + 1)
        jIdx  == nextSmaller(avail, j, fr.jIdx + 1)
    IN  IF jIdx >= Len(avail)
        THEN [st EXCEPT !.availLetters = avail, !.remContent = rem,
                        !.a = SetAt(st.a, fr.t, arity - 1),
                        !.stack = Pop(st)]
        ELSE [st EXCEPT !.availLetters = avail, !.remContent = rem,
                        !.stack = SetTop(st, [fr EXCEPT !.at = "loop", !.jIdx = jIdx,
                                                 !.j = At(avail, jIdx)])]

sawadaStep(st, arity, scaleLen) ==
    CASE Top(st).at = "entry" -> sawadaEnter(st, arity, scaleLen)
      [] Top(st).at = "loop"  -> sawadaLoop(st, arity, scaleLen)
      [] Top(st).at = "after" -> sawadaAfter(st, arity, scaleLen)

\* sawadaMut run to its return: the collection it leaves
RECURSIVE sawadaMut(_, _, _)
sawadaMut(st, arity, scaleLen) ==
    IF st.stack = <<>> THEN st.currColl
    ELSE sawadaMut(sawadaStep(st, arity, scaleLen), arity, scaleLen)

\* the collection returned with its compacted letters
mapBackCompact(coll, c) == coll

\* the map back to the original class ids of the collection read from its end
mapBackFromEnd(coll, c) ==
    [x \in 1..Len(coll) |->
        [y \in 1..Len(coll[Len(coll) + 1 - x]) |->
            At(letterMap(c), coll[Len(coll) + 1 - x][y])]]

\* the final map of the collection back to the original class ids
mapBack(coll, c) ==
    [x \in 1..Len(coll) |-> [y \in 1..Len(coll[x]) |-> At(letterMap(c), coll[x][y])]]

necklacesFixedContent(c) ==
    IF Len(c) = 0 THEN <<>>
    ELSE IF Len(nonZeroContent(c)) = 0 THEN <<>>
    ELSE mapBack(sawadaMut(sawadaInit(c), Arity(c), ScaleLen(c)), c)

----------------------------------------------------------------------------
(* MOS generation.  A call that can fail to return is modelled by a record  *)
(* whose field outcome is "returns", "throws" or "diverges".                *)

\* the while loop of extendedGcd over <<oldR, r, oldS, s, oldT, t>>
RECURSIVE extendedGcdLoop(_, _, _, _, _, _)
extendedGcdLoop(oldR, r, oldS, s, oldT, t) ==
    IF r # 0
    THEN LET quotient == oldR \div r
         IN  extendedGcdLoop(r, oldR - quotient * r, s, oldS - quotient * s,
                             t, oldT - quotient * t)
    ELSE <<oldR, oldS, oldT>>

extendedGcd(a, b) == extendedGcdLoop(a, b, 1, 0, 0, 1)

\* modinv throws when a and b are not coprime
modinv(a, b) ==
    LET g == extendedGcd(a, b)[1]
        x == extendedGcd(a, b)[2]
    IN  IF g # 1 THEN [outcome |-> "throws", value |-> 0]
        ELSE [outcome |-> "returns", value |-> mod(x, b)]

\* the Bresenham loop stepping in x only once all steps in y are taken
RECURSIVE bresenhamLoopYFirst(_, _, _, _, _)
bresenhamLoopYFirst(a, b, currentX, currentY, resultScale) ==
    IF currentX # a \/ currentY # b
    THEN IF currentY >= b
         THEN bresenhamLoopYFirst(a, b, currentX + 1, currentY, Append(resultScale, 0))
         ELSE bresenhamLoopYFirst(a, b, currentX, currentY + 1, Append(resultScale, 1))
    ELSE resultScale

\* the Bresenham loop of darkestMosModeAndGenBresenham
RECURSIVE bresenhamLoop(_, _, _, _, _)
bresenhamLoop(a, b, currentX, currentY, resultScale) ==
    IF currentX # a \/ currentY # b
    THEN IF a * currentY >= b * (currentX + 1)
         THEN bresenhamLoop(a, b, currentX + 1, currentY, Append(resultScale, 0))
         ELSE bresenhamLoop(a, b, currentX, currentY + 1, Append(resultScale, 1))
    ELSE resultScale

\* gcd(0, 0) is 0: a / d and b / d are then NaN, and gcd called with NaN
\* never leaves its while loop (NaN !== 0 holds forever)
RECURSIVE darkestMosModeAndGenBresenham(_, _)
darkestMosModeAndGenBresenham(a, b) ==
    LET d == gcd(a, b)
    IN  IF d = 1
        THEN LET countGenerSteps == modinv(a, a + b)
                 resultScale     == bresenhamLoop(a, b, 0, 0, <<>>)
             IN  IF countGenerSteps.outcome = "throws"
                 THEN [outcome |-> "throws", scale |-> <<>>, gener |-> ZERO]
                 ELSE [outcome |-> "returns", scale |-> resultScale,
                       gener |-> fromSlice(SubSeq(resultScale, 1,
                                     Min2(countGenerSteps.value, Len(resultScale))))]
        ELSE IF d = 0
        THEN [outcome |-> "diverges", scale |-> <<>>, gener |-> ZERO]
        ELSE LET prim == darkestMosModeAndGenBresenham(a \div d, b \div d)
             IN  IF prim.outcome # "returns" THEN prim
                 ELSE [prim EXCEPT !.scale = repeatSeq(prim.scale, d)]

\* subst with every occurrence of x replaced by the first letter of filler
substFirstLetter(template, x, filler) ==
    IF Len(filler) = 0 THEN SelectSeq(template, LAMBDA letter : letter # x)
    ELSE [k \in 1..Len(template) |->
            IF template[k] = x THEN filler[1] ELSE template[k]]

subst(template, x, filler) ==
    IF Len(filler) = 0 THEN SelectSeq(template, LAMBDA letter : letter # x)
    ELSE [k \in 1..Len(template) |->
            IF template[k] = x
            THEN At(filler, Cardinality({ y \in 1..(k - 1) : template[y] = x })
                               % Len(filler))
            ELSE template[k]]

\* the loop of mosSubstitutionScalesOnePerm over the rotations of the filler
substitutedScales(template, fillerShifted, generSize, count) ==
    [x \in 1..count |->
        subst(template, 1,
              rotate(fillerShifted, ((x - 1) * generSize) % Len(fillerShifted)))]

\* mosSubstitutionScalesOnePerm given the results of its two calls of
\* darkestMosModeAndGenBresenham
onePermFrom(template, filler, count) ==
    IF template.outcome # "returns"
    THEN [outcome |-> template.outcome, scales |-> <<>>]
    ELSE IF filler.outcome # "returns"
    THEN [outcome |-> filler.outcome, scales |-> <<>>]
    ELSE [outcome |-> "returns",
          scales  |-> substitutedScales(template.scale,
                          [k \in 1..Len(filler.scale) |-> filler.scale[k] + 1],
                          len(filler.gener), count)]

mosSubstitutionScalesOnePerm(n0, n1, n2) ==
    onePermFrom(darkestMosModeAndGenBresenham(n0, n1 + n2),
                darkestMosModeAndGenBresenham(n1, n2), n1 + n2)

\* the canonical forms of allScales, each once, in the order of first occurrence
RECURSIVE uniqueCanonical(_, _)
uniqueCanonical(allScales, unique) ==
    IF allScales = <<>> THEN unique
    ELSE LET canonical == leastMode(Head(allScales))
         IN  uniqueCanonical(Tail(allScales),
                 IF \E x \in 1..Len(unique) : unique[x] = canonical
                 THEN unique ELSE Append(unique, canonical))

\* unique.sort((a, b) => compareArrays(a, b)) as a stable insertion sort
RECURSIVE insertArray(_, _)
insertArray(sorted, x) ==
    IF sorted = <<>> THEN <<x>>
    ELSE IF compareArrays(sorted[Len(sorted)], x) <= 0 THEN Append(sorted, x)
    ELSE Append(insertArray(SubSeq(sorted, 1, Len(sorted) - 1), x),
                sorted[Len(sorted)])

RECURSIVE sortArrays(_, _)
sortArrays(arrays, sorted) ==
    IF arrays = <<>> THEN sorted
    ELSE sortArrays(Tail(arrays), insertArray(sorted, Head(arrays)))

\* scale.map((x) => (x + 1) % 3) on every scale
mapLettersMid(scales) ==
    [x \in 1..Len(scales) |-> [y \in 1..Len(scales[x]) |-> (scales[x][y] + 1) % 3]]

\* scale.map((x) => (x === 0 ? 2 : (x - 1) % 3)) on every scale
mapLettersSmall(scales) ==
    [x \in 1..Len(scales) |->
        [y \in 1..Len(scales[x]) |->
            IF scales[x][y] = 0 THEN 2 ELSE (scales[x][y] - 1) % 3]]

\* mosSubstitutionScales given the results of its three calls of
\* mosSubstitutionScalesOnePerm
mosSubstitutionScalesFrom(perm1, perm2, perm3) ==
    IF perm1.outcome # "returns" THEN perm1
    ELSE IF perm2.outcome # "returns" THEN perm2
    ELSE IF perm3.outcome # "returns" THEN perm3
    ELSE [outcome |-> "returns",
          scales  |-> sortArrays(
              uniqueCanonical(perm1.scales \o mapLettersMid(perm2.scales)
                              \o mapLettersSmall(perm3.scales), <<>>), <<>>)]

\* a signature with fewer than 3 entries leaves n2 (or n1 and n2) undefined:
\* n1 + n2 is NaN and the first call of gcd never leaves its while loop
mosSubstitutionScales(sig) ==
    IF Len(sig) < 3 THEN [outcome |-> "diverges", scales |-> <<>>]
    ELSE mosSubstitutionScalesFrom(
             mosSubstitutionScalesOnePerm(At(sig, 0), At(sig, 1), At(sig, 2)),
             mosSubstitutionScalesOnePerm(At(sig, 1), At(sig, 2), At(sig, 0)),
             mosSubstitutionScalesOnePerm(At(sig, 2), At(sig, 0), At(sig, 1)))

----------------------------------------------------------------------------
(* Conversion utilities; a string is the sequence of its characters *)

\* STEP_LETTERS[i] is read as At(STEP_LETTERS, i)
STEP_LETTERS ==
    << <<>>,
       <<"X">>,
       <<"L", "s">>,
       <<"L", "m", "s">>,
       <<"L", "m", "n", "s">>,
       <<"H", "L", "m", "n", "s">>,
       <<"H", "L", "m", "n", "s", "t">>,
       <<"B", "H", "L", "m", "n", "s", "t">>,
       <<"B", "H", "L", "m", "n", "s", "t", "w">>,
       <<"B", "C", "H", "L", "m", "n", "s", "t", "w">>,
       <<"B", "C", "H", "L", "m", "n", "p", "s", "t", "w">>,
       <<"A", "B", "C", "D", "E", "F", "G", "H", "I", "J", "K", "L", "M", "N", "O", "P", "Q", "R", "S", "T", "U", "V", "W", "X", "Y", "Z">>
       \o <<"a", "b", "c", "d", "e", "f", "g", "h", "i", "j", "k", "l", "m", "n", "o", "p", "q", "r", "s", "t", "u", "v", "w", "x", "y", "z">> >>

lettersFor(arity) == At(STEP_LETTERS, Min2(arity, Len(STEP_LETTERS) - 1))

\* the first index of c in letters, -1 when it does not occur
indexOf(letters, c) ==
    IF \E x \in 1..Len(letters) : letters[x] = c
    THEN (CHOOSE x \in 1..Len(letters) :
              letters[x] = c /\ \A y \in 1..(x - 1) : letters[y] # c) - 1
    ELSE -1

stringToNumbers(word) ==
    LET letters == lettersFor(Cardinality({ word[x] : x \in 1..Len(word) }))
        found   == SelectSeq(word, LAMBDA c : indexOf(letters, c) # -1)
    IN  [x \in 1..Len(found) |-> indexOf(letters, found[x])]

numbersToString(word) ==
    LET letters == lettersFor(Cardinality({ word[x] : x \in 1..Len(word) }))
        kept    == SelectSeq(word, LAMBDA i : i < Len(letters))
    IN  [x \in 1..Len(kept) |-> At(letters, kept[x])]

wordToSig(input) ==
    [i \in 1..3 |-> Cardinality({ x \in 1..Len(input) : input[x] = i - 1 })]

----------------------------------------------------------------------------
(* Scale profiles *)

\* null is the empty tuple; a present structure or lattice basis is a
\* one-element tuple holding it
\* the profile with lattice_basis null whatever the basis search returned
profileFromNoBasis(query, basisResult) ==
    [word          |-> numbersToString(leastMode(query)),
     lattice_basis |-> <<>>,
     chirality     |-> chirality(query),
     reversed      |-> numbersToString(leastMode(reverse(query))),
     structure     |-> IF basisResult # <<>> THEN <<basisResult[3]>> ELSE <<>>,
     lm            |-> monotoneLm(query),
     ms            |-> monotoneMs(query),
     s0            |-> monotoneS0(query),
     subst_l_ms    |-> isMosSubst(query, 0, 1, 2),
     subst_m_ls    |-> isMosSubst(query, 1, 0, 2),
     subst_s_lm    |-> isMosSubst(query, 2, 0, 1),
     mv            |-> maximumVariety(query)]

profileFrom(query, basisResult) ==
    [word          |-> numbersToString(leastMode(query)),
     lattice_basis |-> IF basisResult # <<>>
                       THEN << <<basisResult[1], basisResult[2]>> >> ELSE <<>>,
     chirality     |-> chirality(query),
     reversed      |-> numbersToString(leastMode(reverse(query))),
     structure     |-> IF basisResult # <<>> THEN <<basisResult[3]>> ELSE <<>>,
     lm            |-> monotoneLm(query),
     ms            |-> monotoneMs(query),
     s0            |-> monotoneS0(query),
     subst_l_ms    |-> isMosSubst(query, 0, 1, 2),
     subst_m_ls    |-> isMosSubst(query, 1, 0, 2),
     subst_s_lm    |-> isMosSubst(query, 2, 0, 1),
     mv            |-> maximumVariety(query)]

wordToProfile(query) ==
    profileFrom(query, getUnimodularBasis(guideFrames(query), wordToSig(query)))

----------------------------------------------------------------------------
(* Equal tunings *)

\* (steps / ed) * equaveCents as the fraction <<numerator, denominator>>;
\* a zero denominator with a positive numerator is JavaScript's Infinity.
\* An entry missing from stepSig is undefined: ed is then NaN and fails
\* every comparison.
stepsAsCents(steps, ed, equaveCents) == <<steps * equaveCents, ed>>

\* x <= cents and cents <= x for a number x and a fraction cents
NumLeqCents(x, cents) == x * cents[2] <= cents[1]

CentsLeqNum(cents, x) == cents[1] <= x * cents[2]

\* the triple loop without the test of ed against edBound
edTuningsAnyEd(stepSig, edBound, aberLower, aberUpper, equaveCents) ==
    LET accepted(t) ==
            IF Len(stepSig) < 3 THEN FALSE ELSE
            LET ed == t[1] * At(stepSig, 0) + t[2] * At(stepSig, 1) + t[3] * At(stepSig, 2)
                aberSize == stepsAsCents(t[3], ed, equaveCents)
            IN  NumLeqCents(aberLower, aberSize) /\ CentsLeqNum(aberSize, aberUpper)
        forS(l, m) == SelectSeq([s \in 1..(m - 1) |-> <<l, m, s>>], accepted)
        forM(l) == Flatten([x \in 1..(l - 2) |-> forS(l, x + 1)])
    IN  Flatten([x \in 1..(edBound - 3) |-> forM(x + 2)])

\* the loop of s starting at 2 instead of 1
edTuningsSFromTwo(stepSig, edBound, aberLower, aberUpper, equaveCents) ==
    LET accepted(t) ==
            IF Len(stepSig) < 3 THEN FALSE ELSE
            LET ed == t[1] * At(stepSig, 0) + t[2] * At(stepSig, 1) + t[3] * At(stepSig, 2)
                aberSize == stepsAsCents(t[3], ed, equaveCents)
            IN  /\ ed <= edBound
                /\ NumLeqCents(aberLower, aberSize) /\ CentsLeqNum(aberSize, aberUpper)
        forS(l, m) == SelectSeq([s \in 1..(m - 2) |-> <<l, m, s + 1>>], accepted)
        forM(l) == Flatten([x \in 1..(l - 2) |-> forS(l, x + 1)])
    IN  Flatten([x \in 1..(edBound - 3) |-> forM(x + 2)])

\* the accepted triples in the order of the loops: l from 3 below edBound,
\* m from 2 below l, s from 1 below m
edTuningsForTernary(stepSig, edBound, aberLower, aberUpper, equaveCents) ==
    LET accepted(t) ==
            IF Len(stepSig) < 3 THEN FALSE ELSE
            LET ed == t[1] * At(stepSig, 0) + t[2] * At(stepSig, 1) + t[3] * At(stepSig, 2)
                aberSize == stepsAsCents(t[3], ed, equaveCents)
            IN  /\ ed <= edBound
                /\ NumLeqCents(aberLower, aberSize) /\ CentsLeqNum(aberSize, aberUpper)
        forS(l, m) == SelectSeq([s \in 1..(m - 1) |-> <<l, m, s>>], accepted)
        forM(l) == Flatten([x \in 1..(l - 2) |-> forS(l, x + 1)])
    IN  Flatten([x \in 1..(edBound - 3) |-> forM(x + 2)])

----------------------------------------------------------------------------
(* Main API functions *)

EDO_BOUND == 111

S_LOWER_BOUND == 20

S_UPPER_BOUND == 200

\* the three strings l\edo, m\edo, s\edo of a tuning are the tuple
\* <<l, m, s, edo>>; edTuningsForTernary is called with the signature alone,
\* so that its default parameters apply
sigToEdTunings(stepSig) ==
    LET edTunings == edTuningsForTernary(stepSig, EDO_BOUND, S_LOWER_BOUND,
                                         S_UPPER_BOUND, 1200)
    IN  [k \in 1..Len(edTunings) |->
            LET v   == edTunings[k]
                edo == v[1] * At(stepSig, 0) + v[2] * At(stepSig, 1)
                       + v[3] * At(stepSig, 2)
            IN  <<v[1], v[2], v[3], edo>>]

\* the filter of sigResult; options holds the fields sigResult destructures
filteringCondFrom(scale, options, frames) ==
    /\ ~(options.lm /\ ~monotoneLm(scale))
    /\ ~(options.ms /\ ~monotoneMs(scale))
    /\ ~(options.s0 /\ ~monotoneS0(scale))
    /\ options.ggsLen > 0 =>
          /\ Len(frames) # 0
          /\ IF options.ggsLenConstraint = "exactly"
             THEN Len(frames[1].gs) = options.ggsLen
             ELSE Len(frames[1].gs) <= options.ggsLen
    /\ options.mv > 0 =>
          IF options.mvConstraint = "exactly"
          THEN maximumVariety(scale) = options.mv
          ELSE maximumVariety(scale) <= options.mv
    /\ options.complexity > 0 =>
          /\ Len(frames) # 0
          /\ IF options.complexityConstraint = "exactly"
             THEN complexity(frames[1]) = options.complexity
             ELSE complexity(frames[1]) <= options.complexity

filteringCond(scale, options) == filteringCondFrom(scale, options, guideFrames(scale))

\* the sort key of a profile: its complexity, 255 without a structure
profileComplexity(profile) ==
    IF profile.structure # <<>> THEN profile.structure[1].complexity ELSE 255

\* the profiles left in the order of the scales
sortProfilesNot(profiles) == profiles

\* profiles.sort by complexity (stable)
sortProfiles(profiles) ==
    sortByKey(profiles, [x \in 1..Len(profiles) |-> profileComplexity(profiles[x])])

\* scales.map((scale) => wordToProfile(scale))
mapProfiles(scales) == [x \in 1..Len(scales) |-> wordToProfile(scales[x])]

\* sigResult after it has got the scales of the signature
sigResultFrom(scales, stepSig, options) ==
    IF scales.outcome # "returns"
    THEN [outcome |-> scales.outcome, profiles |-> <<>>, ji_tunings |-> <<>>,
          ed_tunings |-> <<>>]
    ELSE [outcome    |-> "returns",
          profiles   |-> sortProfiles(mapProfiles(
                             SelectSeq(scales.scales,
                                       LAMBDA scale : filteringCond(scale, options)))),
          ji_tunings |-> <<>>,
          ed_tunings |-> sigToEdTunings(stepSig)]

\* sigResult reads the ten filter fields of options and no other field
sigResult(query, options) ==
    sigResultFrom(IF options.mosSubst = "on" THEN mosSubstitutionScales(query)
                  ELSE [outcome |-> "returns",
                        scales  |-> necklacesFixedContent(query)],
                  query, options)

\* wordResult has the one parameter query
wordResult(query) ==
    LET wordAsNumbers == stringToNumbers(query)
        stepSig       == wordToSig(wordAsNumbers)
    IN  [outcome    |-> "returns",
         profile    |-> wordToProfile(wordAsNumbers),
         ji_tunings |-> <<>>,
         ed_tunings |-> sigToEdTunings(stepSig)]

----------------------------------------------------------------------------
(* The results page.  The page is the record of its status line, appState  *)
(* and tables, with the calls of the library it has made; a handler maps   *)
(* the page before a click to the page after.                              *)
(* An error message is a string, the empty string meaning no error.        *)

RANK_LIMIT == 3

EMPTY_SCALE == "Scale is empty. This is a bug."

NO_HIGH_RANK_SCALES == "Scales of rank 0 or rank 4 or higher are not supported."

\* the tables element without a data row
NoTables == [scales |-> <<>>, profiles |-> <<>>, edTunings |-> <<>>]

\* split(" ").map(Number).filter((n) => n) on the numbers typed
parseSig(tokens) == SelectSeq(tokens, LAMBDA n : n # 0)

\* the counts of the letters L, m and s of the displayed word
latticeSig(word) ==
    [i \in 0..2 |->
        Cardinality({ x \in 1..Len(word) : word[x] = At(<<"L", "m", "s">>, i) })]

\* gaussianElimination returns null exactly for a singular left side
gaussianEliminationNull(g, h, sig) == det3(g, h, sig) = 0

\* showScaleProfile formats the guide frame in the current tuning
showScaleProfile(state) ==
    IF state.profile # <<>> /\ state.profile[1].structure # <<>>
       /\ state.tuning = <<>>
    THEN "TypeError" ELSE ""

\* createLatticeView after it has cleared the status line
createLatticeView(state) ==
    IF state.word # <<>> /\ state.word[1] # <<>> /\ state.latticeBasis # <<>>
    THEN IF gaussianEliminationNull(state.latticeBasis[1][1],
                                    state.latticeBasis[1][2],
                                    latticeSig(state.word[1]))
         THEN "TypeError"
         ELSE IF \E x \in 1..Len(state.word[1]) :
                     state.word[1][x] \notin {"L", "m", "s"}
         THEN "Error: Invalid letter"
         ELSE IF state.tuning = <<>> THEN "TypeError" ELSE ""
    ELSE ""

\* the status line after updateViews and the error it throws
updateViews(state, statusBefore) ==
    IF showScaleProfile(state) # ""
    THEN [status |-> statusBefore, thrown |-> showScaleProfile(state)]
    ELSE [status |-> "", thrown |-> createLatticeView(state)]

\* a handler's try block ending in updateViews: the catch clause writes the
\* error to the status line
viewsOrError(page, state) ==
    [page EXCEPT !.appState = state,
                 !.status = IF updateViews(state, "Results").thrown # ""
                            THEN updateViews(state, "Results").thrown
                            ELSE updateViews(state, "Results").status]

\* the first scale row selected, when the scale table has a data row
firstScaleSelected(state, profiles) ==
    IF Len(profiles) >= 1
    THEN [state EXCEPT !.word = <<profiles[1].word>>,
                       !.profile = <<profiles[1]>>,
                       !.latticeBasis = profiles[1].lattice_basis]
    ELSE state

\* the click handler of btnSig from the call of sigResult on
sigShown(page, data) ==
    IF data.outcome = "diverges"
    THEN [page EXCEPT !.status = "Computing...", !.tables = NoTables,
                      !.hung = TRUE]
    ELSE IF data.outcome = "throws"
    THEN [page EXCEPT !.status = "Error", !.tables = NoTables]
    ELSE IF data.ed_tunings = <<>>
    THEN [page EXCEPT !.status = "TypeError",
                      !.tables = [scales    |-> [x \in 1..Len(data.profiles) |->
                                                    data.profiles[x].word],
                                  profiles  |-> data.profiles,
                                  edTunings |-> <<>>],
                      !.appState = firstScaleSelected(page.appState, data.profiles)]
    ELSE viewsOrError(
             [page EXCEPT !.tables = [scales    |-> [x \in 1..Len(data.profiles) |->
                                                        data.profiles[x].word],
                                      profiles  |-> data.profiles,
                                      edTunings |-> data.ed_tunings]],
             [firstScaleSelected(page.appState, data.profiles)
                 EXCEPT !.tuning = <<data.ed_tunings[1]>>])

\* the click handler of btnSig; form holds the filter fields and the tuning
\* fields of the page
btnSigClick(page, tokens, form) ==
    IF SumSeq(parseSig(tokens)) = 0
    THEN [page EXCEPT !.status = EMPTY_SCALE]
    ELSE IF Len(parseSig(tokens)) > RANK_LIMIT
    THEN [page EXCEPT !.status = NO_HIGH_RANK_SCALES]
    ELSE sigShown([page EXCEPT !.libCalls =
                         Append(@, [fn |-> "sigResult", query |-> parseSig(tokens)])],
                  sigResult(parseSig(tokens), form))

\* the click handler of btnWord from the call of wordResult on
wordShown(page, data) ==
    IF data.ed_tunings = <<>>
    THEN [page EXCEPT !.status = "TypeError",
                      !.tables = [scales |-> <<>>, profiles |-> <<>>,
                                  edTunings |-> <<>>],
                      !.appState.word = <<data.profile.word>>]
    ELSE viewsOrError(
             [page EXCEPT !.tables = [scales |-> <<>>, profiles |-> <<>>,
                                      edTunings |-> data.ed_tunings]],
             [word         |-> <<data.profile.word>>,
              latticeBasis |-> data.profile.lattice_basis,
              tuning       |-> <<data.ed_tunings[1]>>,
              profile      |-> <<data.profile>>])

\* the click handler of btnWord: the query goes to wordResult as typed
btnWordClick(page, query) ==
    wordShown([page EXCEPT !.libCalls =
                   Append(@, [fn |-> "wordResult", query |-> query])],
              wordResult(query))

\* a handler outside any try block ending in updateViews
viewsUncaught(page, state) ==
    [page EXCEPT !.appState = state,
                 !.status = updateViews(state, page.status).status]

\* the click handler of data row i of the scale table
scaleRowClick(page, i) ==
    viewsUncaught(page,
        [page.appState EXCEPT !.profile = <<page.tables.profiles[i]>>,
                              !.latticeBasis = page.tables.profiles[i].lattice_basis,
                              !.word = <<page.tables.scales[i]>>])

\* the click handler of data row i of the ED tuning table
edRowClick(page, i) ==
    viewsUncaught(page,
        [page.appState EXCEPT !.tuning = <<page.tables.edTunings[i]>>])

----------------------------------------------------------------------------
(* The necklace enumeration as a state machine *)

NoSawada == [remContent |-> <<>>, runs |-> <<>>, availLetters |-> <<>>,
             a |-> <<>>, currColl |-> <<>>, stack |-> <<>>]

\* signatures of up to 3 nonnegative counts and at most MaxLen steps
Signatures ==
    UNION { { c \in [1..n -> 0..MaxLen] : SumSeq(c) <= MaxLen } : n \in 0..3 }

IdleNeck == content = <<>> /\ pc = "idle" /\ sw = NoSawada /\ result = <<>>

IdleWord == inWord = <<>> /\ inAmount = 0 /\ called = "idle" /\ ret = 0

NoEdArgs == [stepSig |-> <<0, 0, 0>>, edBound |-> 0, aberLower |-> 0,
             aberUpper |-> 0, equaveCents |-> 0]

IdleEd == edArgs = NoEdArgs /\ edResults = <<>>

NoApiCall == [fn |-> "none", query |-> <<>>, options |-> <<>>]

IdleApi == apiCall = NoApiCall /\ apiRet = <<>>

\* appState as initApp creates it: every field null
NoSelection == [word |-> <<>>, latticeBasis |-> <<>>, tuning |-> <<>>, profile |-> <<>>]

NoQuery == [button |-> "none", input |-> <<>>]

\* the results page as loaded, before any click
PageLoaded ==
    /\ status = "" /\ appState = NoSelection /\ tables = NoTables
    /\ lastQuery = NoQuery /\ libCalls = <<>> /\ clicks = 0 /\ hung = FALSE

InitNeck ==
    /\ content \in Signatures
    /\ pc = "start"
    /\ sw = NoSawada
    /\ result = <<>>
    /\ IdleWord /\ IdleEd /\ IdleApi /\ PageLoaded

\* necklacesFixedContent up to its call of sawadaMut, or its early return
NecklacesCall ==
    /\ pc = "start"
    /\ IF Len(content) = 0 \/ Len(nonZeroContent(content)) = 0
       THEN pc' = "done" /\ sw' = sw
       ELSE pc' = "sawada" /\ sw' = sawadaInit(content)
    /\ UNCHANGED <<content, result>>
    /\ UNCHANGED notNeck

SawadaEnter ==
    /\ pc = "sawada" /\ sw.stack # <<>> /\ Top(sw).at = "entry"
    /\ sw' = sawadaEnter(sw, Arity(content), ScaleLen(content))
    /\ UNCHANGED <<content, pc, result>>
    /\ UNCHANGED notNeck

SawadaLoop ==
    /\ pc = "sawada" /\ sw.stack # <<>> /\ Top(sw).at = "loop"
    /\ sw' = sawadaLoop(sw, Arity(content), ScaleLen(content))
    /\ UNCHANGED <<content, pc, result>>
    /\ UNCHANGED notNeck

SawadaAfter ==
    /\ pc = "sawada" /\ sw.stack # <<>> /\ Top(sw).at = "after"
    /\ sw' = sawadaAfter(sw, Arity(content), ScaleLen(content))
    /\ UNCHANGED <<content, pc, result>>
    /\ UNCHANGED notNeck

\* sawadaMut has returned to necklacesFixedContent, which maps the letters back
NecklacesReturn ==
    /\ pc = "sawada" /\ sw.stack = <<>>
    /\ result' = mapBack(sw.currColl, content)
    /\ pc' = "done"
    /\ UNCHANGED <<content, sw>>
    /\ UNCHANGED notNeck

NextNeck ==
    \/ NecklacesCall
    \/ SawadaEnter
    \/ SawadaLoop
    \/ SawadaAfter
    \/ NecklacesReturn

\* the call runs to completion: a step that can be taken is taken
SpecNeck == InitNeck /\ [][NextNeck]_vars /\ WF_vars(NextNeck)

----------------------------------------------------------------------------
(* The word functions of the library, each called on a bounded word *)

Words == UNION { [1..n -> Classes] : n \in 1..MaxWordLen }

InitWord ==
    /\ inWord \in Words
    /\ inAmount = 0
    /\ called = "none"
    /\ ret = 0
    /\ IdleNeck /\ IdleEd /\ IdleApi /\ PageLoaded

CallBooth ==
    /\ called = "none"
    /\ called' = "booth"
    /\ ret' = booth(inWord)
    /\ UNCHANGED <<inWord, inAmount>>
    /\ UNCHANGED notWord

CallLeastMode ==
    /\ called = "none"
    /\ called' = "leastMode"
    /\ ret' = leastMode(inWord)
    /\ UNCHANGED <<inWord, inAmount>>
    /\ UNCHANGED notWord

CallRotate ==
    /\ called = "none"
    /\ \E r \in (-MaxAmount)..MaxAmount :
          /\ inAmount' = r
          /\ ret' = rotate(inWord, r)
    /\ called' = "rotate"
    /\ UNCHANGED inWord
    /\ UNCHANGED notWord

CallGuideFrames ==
    /\ called = "none"
    /\ called' = "guideFrames"
    /\ ret' = guideFrames(inWord)
    /\ UNCHANGED <<inWord, inAmount>>
    /\ UNCHANGED notWord

CallWordToProfile ==
    /\ called = "none"
    /\ called' = "wordToProfile"
    /\ ret' = wordToProfile(inWord)
    /\ UNCHANGED <<inWord, inAmount>>
    /\ UNCHANGED notWord

CallMaximumVariety ==
    /\ called = "none"
    /\ called' = "maximumVariety"
    /\ ret' = maximumVariety(inWord)
    /\ UNCHANGED <<inWord, inAmount>>
    /\ UNCHANGED notWord

NextWord ==
    \/ CallBooth
    \/ CallLeastMode
    \/ CallRotate
    \/ CallGuideFrames
    \/ CallWordToProfile
    \/ CallMaximumVariety

SpecWord == InitWord /\ [][NextWord]_vars

----------------------------------------------------------------------------
(* guideFrames called on a bounded word, and getUnimodularBasis called as   *)
(* wordToProfile calls it, on the guide frames and the signature of the word *)

BasisWords == UNION { [1..n -> Classes] : n \in 1..MaxBasisLen }

InitBasis ==
    /\ inWord \in BasisWords
    /\ inAmount = 0
    /\ called = "none"
    /\ ret = 0
    /\ IdleNeck /\ IdleEd /\ IdleApi /\ PageLoaded

CallGetUnimodularBasis ==
    /\ called = "none"
    /\ called' = "getUnimodularBasis"
    /\ ret' = getUnimodularBasis(guideFrames(inWord), wordToSig(inWord))
    /\ UNCHANGED <<inWord, inAmount>>
    /\ UNCHANGED notWord

NextBasis == CallGetUnimodularBasis \/ CallGuideFrames

SpecBasis == InitBasis /\ [][NextBasis]_vars

----------------------------------------------------------------------------
(* guideFrames, and tryMultiple with a divisor of the length and a step k,   *)
(* called on a bounded word or on a bounded word written twice, which is    *)
(* where several steps k lead tryMultiple to the same frames                *)

DoubledWords == { u \o u : u \in UNION { [1..n -> Classes] : n \in 1..MaxHalfLen } }

FrameWords == BasisWords \cup DoubledWords

InitFrames ==
    /\ inWord \in FrameWords
    /\ inAmount = 0
    /\ called = "none"
    /\ ret = 0
    /\ IdleNeck /\ IdleEd /\ IdleApi /\ PageLoaded

\* the divisors m >= 2 of n
Divisors(n) == { m \in 2..n : n % m = 0 }

CallTryMultiple ==
    /\ called = "none"
    /\ \E mult \in Divisors(Len(inWord)), k \in 2..(Len(inWord) - 2) :
          ret' = [multiplicity |-> mult, k |-> k,
                  frames |-> tryMultiple(inWord, mult, k)]
    /\ called' = "tryMultiple"
    /\ UNCHANGED <<inWord, inAmount>>
    /\ UNCHANGED notWord

NextFrames == CallGuideFrames \/ CallTryMultiple

SpecFrames == InitFrames /\ [][NextFrames]_vars

----------------------------------------------------------------------------
(* darkestMosModeAndGenBresenham called on two positive counts and          *)
(* mosSubstitutionScales on a signature of three positive counts, the       *)
(* arguments held in inWord                                                 *)

MosArgs ==
    [1..2 -> 1..MaxMosCount] \cup [1..3 -> 1..MaxSubstCount]

InitMos ==
    /\ inWord \in MosArgs
    /\ inAmount = 0
    /\ called = "none"
    /\ ret = 0
    /\ IdleNeck /\ IdleEd /\ IdleApi /\ PageLoaded

CallDarkestMos ==
    /\ called = "none"
    /\ Len(inWord) = 2
    /\ called' = "darkestMosModeAndGenBresenham"
    /\ ret' = darkestMosModeAndGenBresenham(inWord[1], inWord[2])
    /\ UNCHANGED <<inWord, inAmount>>
    /\ UNCHANGED notWord

CallMosSubstitutionScales ==
    /\ called = "none"
    /\ Len(inWord) = 3
    /\ called' = "mosSubstitutionScales"
    /\ ret' = mosSubstitutionScales(inWord)
    /\ UNCHANGED <<inWord, inAmount>>
    /\ UNCHANGED notWord

NextMos == CallDarkestMos \/ CallMosSubstitutionScales

SpecMos == InitMos /\ [][NextMos]_vars

----------------------------------------------------------------------------
(* The CountVector methods called on bounded vectors: this and other are    *)
(* held in inWord, the scalar in inAmount                                   *)

\* the vectors fromObject builds from objects with keys up to MaxCvClass and
\* counts of absolute value up to MaxCvCount, explicit zeros among them
CountVectors ==
    UNION { { fromObject(obj) : obj \in [keys -> (-MaxCvCount)..MaxCvCount] } :
              keys \in SUBSET (0..MaxCvClass) }

InitCv ==
    /\ inWord \in CountVectors \X CountVectors
    /\ inAmount \in (-1)..1
    /\ called = "none"
    /\ ret = 0
    /\ IdleNeck /\ IdleEd /\ IdleApi /\ PageLoaded

CallAdd ==
    /\ called = "none"
    /\ called' = "add"
    /\ ret' = add(inWord[1], inWord[2])
    /\ UNCHANGED <<inWord, inAmount>>
    /\ UNCHANGED notWord

CallNeg ==
    /\ called = "none"
    /\ called' = "neg"
    /\ ret' = neg(inWord[1])
    /\ UNCHANGED <<inWord, inAmount>>
    /\ UNCHANGED notWord

CallScalarMul ==
    /\ called = "none"
    /\ called' = "scalarMul"
    /\ ret' = scalarMul(inWord[1], inAmount)
    /\ UNCHANGED <<inWord, inAmount>>
    /\ UNCHANGED notWord

CallEquals ==
    /\ called = "none"
    /\ called' = "equals"
    /\ ret' = equals(inWord[1], inWord[2])
    /\ UNCHANGED <<inWord, inAmount>>
    /\ UNCHANGED notWord

NextCv == CallAdd \/ CallNeg \/ CallScalarMul \/ CallEquals

SpecCv == InitCv /\ [][NextCv]_vars

----------------------------------------------------------------------------
(* wordToProfile called on a bounded word and wordResult on the same word   *)
(* spelled with the letters L, m, s                                         *)

ProfileWords == UNION { [1..n -> Classes] : n \in 1..MaxProfileLen }

\* the word typed by the user: L for class 0, m for class 1, s for class 2
spelled(word) == [x \in 1..Len(word) |-> At(<<"L", "m", "s">>, word[x])]

InitProfile ==
    /\ inWord \in ProfileWords
    /\ inAmount = 0
    /\ called = "none"
    /\ ret = 0
    /\ IdleNeck /\ IdleEd /\ IdleApi /\ PageLoaded

CallWordResultSpelled ==
    /\ called = "none"
    /\ called' = "wordResult"
    /\ ret' = wordResult(spelled(inWord))
    /\ UNCHANGED <<inWord, inAmount>>
    /\ UNCHANGED notWord

NextProfile == CallWordToProfile \/ CallWordResultSpelled

SpecProfile == InitProfile /\ [][NextProfile]_vars

----------------------------------------------------------------------------
(* edTuningsForTernary called on bounded arguments *)

EdArgs ==
    [stepSig : [1..3 -> 0..MaxEdCount], edBound : 0..MaxEdBound,
     aberLower : {0, 20, 200}, aberUpper : {200, 400, 600},
     equaveCents : {1200}]

InitEd ==
    /\ edArgs \in EdArgs
    /\ edResults = <<>>
    /\ called = "none"
    /\ inWord = <<>> /\ inAmount = 0 /\ ret = 0
    /\ IdleNeck /\ IdleApi /\ PageLoaded

CallEdTunings ==
    /\ called = "none"
    /\ called' = "edTuningsForTernary"
    /\ edResults' = edTuningsForTernary(edArgs.stepSig, edArgs.edBound,
                          edArgs.aberLower, edArgs.aberUpper, edArgs.equaveCents)
    /\ UNCHANGED <<edArgs, inWord, inAmount, ret>>
    /\ UNCHANGED <<neckVars, apiVars, uiVars>>

NextEd == CallEdTunings

SpecEd == InitEd /\ [][NextEd]_vars

----------------------------------------------------------------------------
(* sigResult and wordResult called with options, as the results page does *)

\* the options object passed by a caller: the filter fields sigResult reads
\* and the tuning fields of the query
ApiOptions ==
    [lm : {FALSE}, ms : {FALSE}, s0 : {FALSE},
     ggsLen : {0}, ggsLenConstraint : {"at most"},
     complexity : {0}, complexityConstraint : {"at most"},
     mv : {0}, mvConstraint : {"at most"},
     mosSubst : {"off", "on"},
     edBound : {MaxApiEdBound, EDO_BOUND},
     sLower : {S_LOWER_BOUND}, sUpper : {S_UPPER_BOUND},
     equaveCents : {1200}]

\* signatures of 3 counts with 1..MaxSigLen steps
ApiSignatures == { c \in [1..3 -> 0..MaxSigLen] : SumSeq(c) \in 1..MaxSigLen }

\* scale words as strings of up to MaxApiWordLen letters
ApiWords == UNION { [1..n -> {"L", "m", "s"}] : n \in 1..MaxApiWordLen }

ApiCalls ==
    [fn : {"sigResult"}, query : ApiSignatures, options : ApiOptions]
    \cup [fn : {"wordResult"}, query : ApiWords,
          options : { o \in ApiOptions : o.mosSubst = "off" }]

InitApi ==
    /\ apiCall \in ApiCalls
    /\ apiRet = <<>>
    /\ IdleNeck /\ IdleWord /\ IdleEd /\ PageLoaded

CallSigResult ==
    /\ apiCall.fn = "sigResult" /\ apiRet = <<>>
    /\ apiRet' = << sigResult(apiCall.query, apiCall.options) >>
    /\ UNCHANGED apiCall
    /\ UNCHANGED notApi

\* the options passed as second argument have no parameter to bind to
CallWordResult ==
    /\ apiCall.fn = "wordResult" /\ apiRet = <<>>
    /\ apiRet' = << wordResult(apiCall.query) >>
    /\ UNCHANGED apiCall
    /\ UNCHANGED notApi

NextApi ==
    \/ CallSigResult
    \/ CallWordResult

SpecApi == InitApi /\ [][NextApi]_vars

----------------------------------------------------------------------------
(* sigResult called with a complexity filter on ternary signatures *)

FilterOptions ==
    [lm : {FALSE}, ms : {FALSE}, s0 : {FALSE},
     ggsLen : {0}, ggsLenConstraint : {"at most"},
     complexity : 0..MaxComplexity, complexityConstraint : {"exactly", "at most"},
     mv : {0}, mvConstraint : {"at most"},
     mosSubst : {"off"},
     edBound : {EDO_BOUND},
     sLower : {S_LOWER_BOUND}, sUpper : {S_UPPER_BOUND},
     equaveCents : {1200}]

\* signatures of 3 counts >= 1 with up to MaxFilterLen steps
FilterSignatures ==
    { c \in [1..3 -> 1..MaxFilterLen] : SumSeq(c) <= MaxFilterLen }

InitFilter ==
    /\ apiCall \in [fn : {"sigResult"}, query : FilterSignatures,
                     options : FilterOptions]
    /\ apiRet = <<>>
    /\ IdleNeck /\ IdleWord /\ IdleEd /\ PageLoaded

NextFilter == CallSigResult

SpecFilter == InitFilter /\ [][NextFilter]_vars

----------------------------------------------------------------------------
(* The results page driven by clicks *)

Page == [status |-> status, appState |-> appState, tables |-> tables,
         hung |-> hung, libCalls |-> libCalls]

\* the page after a handler has run
Shows(after) ==
    /\ status' = after.status /\ appState' = after.appState
    /\ tables' = after.tables /\ hung' = after.hung
    /\ libCalls' = after.libCalls

\* what is typed into the signature field: up to MaxSigTokens numbers
SigInputs == UNION { [1..n -> 0..MaxTokenValue] : n \in 0..MaxSigTokens }

UiLetters == <<"L", "m", "n", "s">>

\* what is typed into the word field: some of the letters, each once
WordInputs ==
    { SelectSeq(UiLetters, LAMBDA c : c \in S) :
        S \in SUBSET { UiLetters[x] : x \in 1..Len(UiLetters) } }

\* the form of the page: the filters off, the tuning fields at their defaults
UiForms == { o \in ApiOptions : o.edBound = EDO_BOUND }

InitUi == IdleNeck /\ IdleWord /\ IdleEd /\ IdleApi /\ PageLoaded

BtnSigClick ==
    /\ clicks < MaxClicks /\ ~hung
    /\ \E tokens \in SigInputs, form \in UiForms :
           /\ Shows(btnSigClick(Page, tokens, form))
           /\ lastQuery' = [button |-> "sig", input |-> tokens]
    /\ clicks' = clicks + 1
    /\ UNCHANGED notUi

BtnWordClick ==
    /\ clicks < MaxClicks /\ ~hung
    /\ \E query \in WordInputs :
           /\ Shows(btnWordClick(Page, query))
           /\ lastQuery' = [button |-> "word", input |-> query]
    /\ clicks' = clicks + 1
    /\ UNCHANGED notUi

ScaleRowClick ==
    /\ ~hung
    /\ \E i \in 1..Len(tables.scales) : Shows(scaleRowClick(Page, i))
    /\ UNCHANGED <<lastQuery, clicks>>
    /\ UNCHANGED notUi

EdRowClick ==
    /\ ~hung
    /\ \E i \in 1..Min2(Len(tables.edTunings), MaxRows) : Shows(edRowClick(Page, i))
    /\ UNCHANGED <<lastQuery, clicks>>
    /\ UNCHANGED notUi

NextUi ==
    \/ BtnSigClick
    \/ BtnWordClick
    \/ ScaleRowClick
    \/ EdRowClick

SpecUi == InitUi /\ [][NextUi]_vars

----------------------------------------------------------------------------
(* The results page driven by two queries, the signature query made with    *)
(* the maximum-variety filter of the form, and by clicks on the table rows  *)

\* what is typed into the signature field: up to MaxSelectTokens ones
SelectSigInputs == UNION { [1..n -> {1}] : n \in 1..MaxSelectTokens }

\* the form of the page with mv-constraint "exactly" and the mv field filled
SelectForms ==
    { [o EXCEPT !.mv = v, !.mvConstraint = "exactly"] :
        o \in { u \in UiForms : u.mosSubst = "off" }, v \in 0..MaxMvFilter }

\* what is typed into the word field: the three letters of a ternary scale
SelectWordInputs ==
    { w \in WordInputs : Len(w) = 3 /\ \A x \in 1..3 : w[x] # "n" }

BtnSigClickWithFilter ==
    /\ clicks < MaxSelectClicks /\ ~hung
    /\ \E tokens \in SelectSigInputs, form \in SelectForms :
           /\ Shows(btnSigClick(Page, tokens, form))
           /\ lastQuery' = [button |-> "sig", input |-> tokens]
    /\ clicks' = clicks + 1
    /\ UNCHANGED notUi

BtnWordClickTernary ==
    /\ clicks < MaxSelectClicks /\ ~hung
    /\ \E query \in SelectWordInputs :
           /\ Shows(btnWordClick(Page, query))
           /\ lastQuery' = [button |-> "word", input |-> query]
    /\ clicks' = clicks + 1
    /\ UNCHANGED notUi

NextSelect ==
    \/ BtnSigClickWithFilter
    \/ BtnWordClickTernary
    \/ ScaleRowClick
    \/ EdRowClick

SpecSelect == InitUi /\ [][NextSelect]_vars

----------------------------------------------------------------------------
(* Properties of the necklace enumeration *)

RotationSet(w) == { rotate(w, r) : r \in 0..(Len(w) - 1) }

LexLeq(u, v) == compareArrays(u, v) <= 0

\* the lexicographically least rotation, by definition
MinRotation(w) == CHOOSE x \in RotationSet(w) : \A y \in RotationSet(w) : LexLeq(x, y)

Count(w, i) == Cardinality({ x \in 1..Len(w) : w[x] = i })

HasContent(w, c) ==
    /\ Len(w) = SumSeq(c)
    /\ \A i \in 0..(Len(c) - 1) : Count(w, i) = At(c, i)
    /\ \A x \in 1..Len(w) : w[x] \in 0..(Len(c) - 1)

WordsWithContent(c) ==
    { w \in [1..SumSeq(c) -> 0..(Len(c) - 1)] : HasContent(w, c) }

EveryNecklaceOnce ==
    (pc = "done" /\ SumSeq(content) >= 1) =>
        /\ \A w \in WordsWithContent(content) :
              \E x \in 1..Len(result) : result[x] = MinRotation(w)
        /\ \A x, y \in 1..Len(result) :
              x # y => result[y] \notin RotationSet(result[x])

\* C1: for every signature of up to 3 nonnegative counts with at least one
\* step, the enumeration terminates, the least rotation of every word with
\* that content is in the returned list, and no two returned words are
\* rotations of each other.
C1_EveryNecklaceOnce == <>(pc = "done") /\ [] EveryNecklaceOnce

C1_Witness ==
    /\ pc = "done"
    /\ content = <<2, 2, 2>>
    /\ Len(result) >= 2

\* C2: every returned word is its own least rotation and has exactly the
\* counts of the signature, in the original class ids also when the
\* signature has zero entries.
C2_CanonicalWithContent ==
    pc = "done" =>
        \A x \in 1..Len(result) :
            /\ result[x] = MinRotation(result[x])
            /\ HasContent(result[x], content)

C2_Witness ==
    /\ pc = "done"
    /\ content = <<2, 0, 1>>
    /\ result = << <<0, 0, 2>> >>

\* C17: the list returned by necklacesFixedContent is in non-decreasing
\* lexicographic order: compareArrays(u, v) <= 0 for consecutive outputs u, v.
C17_NecklacesNonDecreasing ==
    [](pc = "done" =>
        \A x \in 1..(Len(result) - 1) :
            compareArrays(result[x], result[x + 1]) <= 0)

\* C17 as the code has it: the words are pushed, and the list is returned,
\* in strictly decreasing lexicographic order: compareArrays(u, v) > 0 for
\* consecutive outputs u, v.
C17_NecklacesDecreasing ==
    [](/\ pc = "sawada" =>
            \A x \in 1..(Len(sw.currColl) - 1) :
                compareArrays(sw.currColl[x], sw.currColl[x + 1]) > 0
       /\ pc = "done" =>
            \A x \in 1..(Len(result) - 1) :
                compareArrays(result[x], result[x + 1]) > 0)

C17_Witness ==
    /\ pc = "done"
    /\ content = <<1, 2, 1>>
    /\ result = << <<0, 2, 1, 1>>, <<0, 1, 2, 1>>, <<0, 1, 1, 2>> >>

\* the remaining counts once the letters at positions 0..t-1 of the word a
\* are taken from the content
RemAfterPrefix(a, t) ==
    [c \in 1..Arity(content) |->
        nonZeroContent(content)[c]
            - Cardinality({ x \in 0..(t - 1) : At(a, x) = c - 1 })]

\* the classes with a positive remaining count, the largest first
DescendingPositive(rem) ==
    SelectSeq([x \in 1..Len(rem) |-> Len(rem) - x], LAMBDA i : At(rem, i) > 0)

InSawada == pc = "sawada" /\ sw.stack # <<>>

\* at the entry of sawadaMut at position t
SawadaEntryHolds ==
    InSawada /\ Top(sw).at = "entry" =>
        LET t == Top(sw).t
        IN  /\ SumSeq(sw.remContent) = ScaleLen(content) - t
            /\ sw.remContent = RemAfterPrefix(sw.a, t)
            /\ sw.availLetters = DescendingPositive(sw.remContent)
            /\ \A x \in 1..Len(sw.availLetters) - 1 :
                   sw.availLetters[x] > sw.availLetters[x + 1]
            /\ \A x \in t..(ScaleLen(content) - 1) :
                   At(sw.a, x) = Arity(content) - 1

\* no step of a call at position t, nor of the calls it makes, writes a
\* letter at a position before t; so at the return of the call
\* RemAfterPrefix(a, t) is what it was at the entry, which by
\* SawadaEntryHolds is the remContent of the entry, and
\* DescendingPositive of it is the availLetters of the entry
SawadaStepKeepsPrefix ==
    InSawada =>
        \A f \in 1..Len(sw.stack) :
            \A x \in 0..(sw.stack[f].t - 1) : At(sw'.a, x) = At(sw.a, x)

\* the step in which the call at position Top(sw).t returns
SawadaReturnRestores ==
    InSawada /\ Len(sw'.stack) < Len(sw.stack) =>
        /\ sw'.remContent = RemAfterPrefix(sw'.a, Top(sw).t)
        /\ sw'.availLetters = DescendingPositive(sw'.remContent)

\* C30: at every entry of sawadaMut at position t the remaining counts sum
\* to n - t, availLetters lists exactly the classes with a positive
\* remaining count in strictly descending order and the positions t..n-1
\* of the word hold the largest class; and when a call of sawadaMut returns,
\* remContent and availLetters are what they were at its entry.
C30_SawadaBacktracks ==
    /\ []SawadaEntryHolds
    /\ [][SawadaStepKeepsPrefix /\ SawadaReturnRestores]_vars

\* a call has returned into a loop that had taken the last letter of a
\* class and put it back, and the loop goes on with a smaller letter
C30_Witness ==
    /\ InSawada
    /\ Top(sw).at = "loop"
    /\ Top(sw).jIdx > 0
    /\ Top(sw).wasLastOfKind

----------------------------------------------------------------------------
(* Properties of the word functions *)

\* C3: booth returns a start index of a least rotation, the smallest such
\* index when several rotations are least, and leastMode(w) is at most
\* every rotation of w.
C3_BoothLeastRotation ==
    /\ called = "booth" =>
          /\ ret \in 0..(Len(inWord) - 1)
          /\ \A r \in 0..(Len(inWord) - 1) :
                LexLeq(rotate(inWord, ret), rotate(inWord, r))
          /\ \A r \in 0..(ret - 1) : rotate(inWord, r) # rotate(inWord, ret)
    /\ called = "leastMode" =>
          \A r \in 0..(Len(inWord) - 1) : LexLeq(ret, rotate(inWord, r))

C3_Witness ==
    /\ called = "booth"
    /\ inWord = <<1, 0, 1, 0>>
    /\ ret = 1
    /\ rotate(inWord, 3) = rotate(inWord, ret)

\* C4: the least mode of a rotation of w, by any integer amount, is the
\* least mode of w, and the least mode of a least mode is itself.
C4_LeastModeOfRotation ==
    /\ called = "rotate" => leastMode(ret) = leastMode(inWord)
    /\ called = "leastMode" => leastMode(ret) = ret

C4_Witness ==
    /\ called = "rotate"
    /\ inAmount < -Len(inWord)
    /\ inWord = <<0, 1, 2>>
    /\ ret = <<2, 0, 1>>

\* a text spells a word: one letter per step, equal letters for equal classes
Spells(text, w) ==
    /\ Len(text) = Len(w)
    /\ \A x, y \in 1..Len(w) : (text[x] = text[y]) <=> (w[x] = w[y])

\* C9: profile.word has one letter per step of w and spells leastMode(w),
\* and profile.reversed spells leastMode(reverse(w)), whatever classes w uses.
C9_ProfileWordSpellsLeastMode ==
    called = "wordToProfile" =>
        /\ Spells(ret.word, leastMode(inWord))
        /\ Spells(ret.reversed, leastMode(reverse(inWord)))

\* C10: profile.structure is null exactly when the word has no guide frame,
\* and a structure that is present is one of the guide frames of the word.
C10_StructureNullIffNoFrame ==
    called = "wordToProfile" =>
        LET frames == guideFrames(inWord)
        IN  /\ (ret.structure = <<>>) <=> (frames = <<>>)
            /\ ret.structure # <<>> =>
                  \E x \in 1..Len(frames) :
                      ret.structure[1] = guideFrameToResult(frames[x])

----------------------------------------------------------------------------
(* Properties of the lattice basis *)

\* the determinant of the rows a, b, c by expansion along the first row
Det(a, b, c) ==
    a[0] * (b[1] * c[2] - b[2] * c[1])
    - a[1] * (b[0] * c[2] - b[2] * c[0])
    + a[2] * (b[0] * c[1] - b[1] * c[0])

Unimodular(sig, v, w) == Det(arrayVector(sig), v, w) \in {-1, 1}

\* the vectors of a frame, as guideFrameToResult shows them
FrameVectors(frame) ==
    { cvToObj(frame.gs[x]) : x \in 1..Len(frame.gs) }
    \cup { cvToObj(frame.polyoffset[x]) : x \in 1..Len(frame.polyoffset) }

\* the pairs getUnimodularBasis tests on a frame: for multiplicity 1 the
\* pairs (gs[i], gs[j]) with i <= j and the pairs (polyoffset[x], gs[y]),
\* otherwise the pair (gs[0], last of polyoffset)
TestedPairSet(frame) ==
    LET gsv(x) == cvToObj(frame.gs[x])
        pov(x) == cvToObj(frame.polyoffset[x])
    IN  IF Len(frame.polyoffset) = 1
        THEN { <<gsv(i), gsv(j)>> : i, j \in 1..Len(frame.gs) }
             \cup { <<pov(x), gsv(y)>> :
                       x \in 1..Len(frame.polyoffset), y \in 1..Len(frame.gs) }
        ELSE IF Len(frame.polyoffset) > 1
        THEN { <<gsv(1), pov(Len(frame.polyoffset))>> }
        ELSE {}

BasisFrames == guideFrames(inWord)

BasisSig == wordToSig(inWord)

\* C11: a basis (v, w, frame) returned by getUnimodularBasis has
\* |det(sig, v, w)| = 1, v and w are vectors of the frame, the frames are
\* ranked by ascending complexity, and no frame ranked before the returned
\* one has a tested pair of determinant 1 or -1.
C11_BasisOfFirstQualifyingFrame ==
    (called = "getUnimodularBasis" /\ ret # <<>>) =>
        /\ Unimodular(BasisSig, ret[1], ret[2])
        /\ \A x, y \in 1..Len(BasisFrames) :
               x <= y => complexity(BasisFrames[x]) <= complexity(BasisFrames[y])
        /\ \E k \in 1..Len(BasisFrames) :
               /\ ret[3] = guideFrameToResult(BasisFrames[k])
               /\ {ret[1], ret[2]} \subseteq FrameVectors(BasisFrames[k])
               /\ \A j \in 1..(k - 1) :
                      \A pair \in TestedPairSet(BasisFrames[j]) :
                          ~Unimodular(BasisSig, pair[1], pair[2])

\* the basis of 0,1,2,2,0 comes from the second of its ten frames
C11_Witness ==
    /\ called = "getUnimodularBasis"
    /\ inWord = <<0, 1, 2, 2, 0>>
    /\ ret # <<>>
    /\ ret[3] = guideFrameToResult(BasisFrames[2])
    /\ ret[3] # guideFrameToResult(BasisFrames[1])

\* C12: getUnimodularBasis returns null only if no frame has a qualifying
\* pair: no pair (gs[i], gs[j]) in a frame of multiplicity 1, no pair
\* (gs[0], polyoffset[i]), for any i, in a frame of multiplicity above 1.
C12_NullOnlyIfNoQualifyingPair ==
    (called = "getUnimodularBasis" /\ ret = <<>>) =>
        \A k \in 1..Len(BasisFrames) :
            LET frame == BasisFrames[k]
                gsv(x) == cvToObj(frame.gs[x])
                pov(x) == cvToObj(frame.polyoffset[x])
            IN  IF multiplicity(frame) = 1
                THEN \A i, j \in 1..Len(frame.gs) :
                         ~Unimodular(BasisSig, gsv(i), gsv(j))
                ELSE \A i \in 1..Len(frame.polyoffset) :
                         ~Unimodular(BasisSig, gsv(1), pov(i))

----------------------------------------------------------------------------
(* Properties of the MOS generators *)

\* the words of one permutation before canonicalisation, in the classes of
\* the signature: perm 1 is built around class 0, perm 2 around class 1,
\* perm 3 around class 2
PermScales(sig, perm) ==
    IF perm = 1
    THEN mosSubstitutionScalesOnePerm(sig[1], sig[2], sig[3]).scales
    ELSE IF perm = 2
    THEN mapLettersMid(mosSubstitutionScalesOnePerm(sig[2], sig[3], sig[1]).scales)
    ELSE mapLettersSmall(mosSubstitutionScalesOnePerm(sig[3], sig[1], sig[2]).scales)

\* isMosSubst for the class a permutation is built around
MosSubstOfPerm(w, perm) ==
    IF perm = 1 THEN isMosSubst(w, 0, 1, 2)
    ELSE IF perm = 2 THEN isMosSubst(w, 1, 0, 2)
    ELSE isMosSubst(w, 2, 0, 1)

\* the permutations whose list holds a rotation of the emitted word w
PermsOf(sig, w) ==
    { perm \in 1..3 :
        \E x \in 1..Len(PermScales(sig, perm)) :
            leastMode(PermScales(sig, perm)[x]) = w }

\* C13: for a signature of three counts >= 1 every word emitted by
\* mosSubstitutionScales has exactly 3 distinct classes and satisfies
\* isMosSubst for the class it was built around, so one of
\* isMosSubst(w,0,1,2), isMosSubst(w,1,0,2), isMosSubst(w,2,0,1) holds.
C13_EmittedWordsAreMosSubst ==
    called = "mosSubstitutionScales" =>
        /\ ret.outcome = "returns"
        /\ \A x \in 1..Len(ret.scales) :
               /\ stepVariety(ret.scales[x]) = 3
               /\ PermsOf(inWord, ret.scales[x]) # {}
               /\ \A perm \in PermsOf(inWord, ret.scales[x]) :
                      MosSubstOfPerm(ret.scales[x], perm)

\* the signature 2,2,1 yields words built around each of the three classes
C13_Witness ==
    /\ called = "mosSubstitutionScales"
    /\ inWord = <<2, 2, 1>>
    /\ ret.outcome = "returns"
    /\ \A perm \in 1..3 :
           \E x \in 1..Len(ret.scales) : perm \in PermsOf(inWord, ret.scales[x])

\* the number of steps of class c in the word w
CountOf(w, c) == Cardinality({ x \in 1..Len(w) : w[x] = c })

\* the divisor d of a and b with a/d, b/d coprime
CommonDivisor(a, b) ==
    CHOOSE d \in 1..a : a % d = 0 /\ b % d = 0
                         /\ \A e \in (d + 1)..a : ~(a % e = 0 /\ b % e = 0)

\* C14: for all positive a and b the word of darkestMosModeAndGenBresenham
\* has length a + b, a steps 0, b steps 1 and maximum variety 2; when a
\* and b share d > 1 it is the word of (a/d, b/d) repeated d times, with
\* the generator of (a/d, b/d).
C14_DarkestMosIsMos ==
    called = "darkestMosModeAndGenBresenham" =>
        LET a == inWord[1]
            b == inWord[2]
            d == CommonDivisor(a, b)
            prim == darkestMosModeAndGenBresenham(a \div d, b \div d)
        IN  /\ ret.outcome = "returns"
            /\ Len(ret.scale) = a + b
            /\ CountOf(ret.scale, 0) = a
            /\ CountOf(ret.scale, 1) = b
            /\ maximumVariety(ret.scale) = 2
            /\ Len(prim.scale) * d = Len(ret.scale)
            /\ \A x \in 1..Len(ret.scale) :
                   ret.scale[x] = prim.scale[((x - 1) % Len(prim.scale)) + 1]
            /\ ret.gener = prim.gener

\* 4 and 6 share the divisor 2: the word of (2, 3) twice
C14_Witness ==
    /\ called = "darkestMosModeAndGenBresenham"
    /\ inWord = <<4, 6>>
    /\ ret.outcome = "returns"
    /\ ret.scale = darkestMosModeAndGenBresenham(2, 3).scale
                    \o darkestMosModeAndGenBresenham(2, 3).scale

\* C28: for every signature of three counts >= 0 with at least one step,
\* the signatures with two counts 0 included, sigResult with mosSubst "on",
\* and so mosSubstitutionScales, returns: it neither throws the non-coprime
\* generator error nor runs on for ever on a gcd of 0.
C28_MosSubstReturns ==
    /\ apiCall.fn = "sigResult"
    /\ apiCall.options.mosSubst = "on"
    /\ apiRet # <<>>
    => apiRet[1].outcome = "returns"

----------------------------------------------------------------------------
(* Properties of CountVector *)

\* C18: for all count vectors v and w, explicit zero entries included,
\* v.add(v.neg()).equals(ZERO) and v.add(w).equals(w.add(v)).
C18_CountVectorGroupLaws ==
    /\ called = "neg" => equals(add(inWord[1], ret), ZERO)
    /\ called = "add" => equals(ret, add(inWord[2], inWord[1]))

\* C19: equals holds exactly when get(c) agrees for every class c, so
\* v.scalarMul(0).equals(ZERO) for every v, and equals is symmetric.
C19_EqualsIsValueEquality ==
    /\ called = "equals" =>
          /\ ret = (\A c \in 0..MaxCvClass : get(inWord[1], c) = get(inWord[2], c))
          /\ ret = equals(inWord[2], inWord[1])
    /\ (called = "scalarMul" /\ inAmount = 0) => equals(ret, ZERO)

----------------------------------------------------------------------------
(* Properties of maximum variety *)

TwoClassWord == Cardinality({ inWord[x] : x \in 1..Len(inWord) }) = 2

\* C20: maximumVariety(word) = 2 for every word with exactly two distinct
\* step classes.
C20_TwoClassWordHasVarietyTwo ==
    (called = "maximumVariety" /\ TwoClassWord) => ret = 2

\* C20 as the code has it: a word with exactly two distinct step classes
\* has maximum variety at least 2 and at most its length, and exactly 2
\* when it has 2 or 3 steps.
C20_TwoClassWordHasVarietyAtLeastTwo ==
    (called = "maximumVariety" /\ TwoClassWord) =>
        /\ ret >= 2
        /\ ret <= Len(inWord)
        /\ Len(inWord) <= 3 => ret = 2

\* the subwords 0,0 and 0,1 and 1,1 of 0,0,1,1 are three varieties
C20_Witness ==
    /\ called = "maximumVariety"
    /\ inWord = <<0, 0, 1, 1>>
    /\ ret = 3

----------------------------------------------------------------------------
(* Properties of the ED tuning enumeration *)

Ed(t, sig) == t[1] * At(sig, 0) + t[2] * At(sig, 1) + t[3] * At(sig, 2)

\* sLower <= s * equave / ed <= sUpper, for ed > 0
InWindow(t, args) ==
    /\ Ed(t, args.stepSig) > 0
    /\ args.aberLower * Ed(t, args.stepSig) <= t[3] * args.equaveCents
    /\ t[3] * args.equaveCents <= args.aberUpper * Ed(t, args.stepSig)

ValidTriple(t, args) ==
    /\ 3 <= t[1]
    /\ 2 <= t[2] /\ t[2] < t[1]
    /\ 1 <= t[3] /\ t[3] < t[2]
    /\ Ed(t, args.stepSig) <= args.edBound
    /\ InWindow(t, args)

\* the triples with l up to one more than the largest bound
Triples == (3..(MaxEdBound + 1)) \X (2..MaxEdBound) \X (1..MaxEdBound)

Returned(t) == \E x \in 1..Len(edResults) : edResults[x] = t

\* C5: every returned triple satisfies 3 <= l, 2 <= m < l, 1 <= s < m,
\* ed <= B and has its s-step within the cents window.
C5_EdSound ==
    called = "edTuningsForTernary" =>
        \A x \in 1..Len(edResults) : ValidTriple(edResults[x], edArgs)

C5_Witness ==
    /\ called = "edTuningsForTernary"
    /\ edArgs.stepSig = <<1, 1, 1>>
    /\ Len(edResults) >= 1

\* C6 as stated: every valid triple, with no upper bound on l other than
\* ed <= B, is returned.
C6_EdCompleteAnyL ==
    called = "edTuningsForTernary" =>
        \A t \in Triples : ValidTriple(t, edArgs) => Returned(t)

\* C6 as amended: every valid triple with l < B is returned.
C6_EdCompleteBelowBound ==
    called = "edTuningsForTernary" =>
        \A t \in Triples :
            (ValidTriple(t, edArgs) /\ t[1] < edArgs.edBound) => Returned(t)

C6_Witness ==
    /\ called = "edTuningsForTernary"
    /\ edArgs.stepSig = <<0, 1, 1>>
    /\ edArgs.edBound = 5
    /\ Returned(<<4, 3, 2>>)
    /\ ~Returned(<<5, 3, 2>>)
    /\ ValidTriple(<<5, 3, 2>>, edArgs)

----------------------------------------------------------------------------
(* Properties of the API entry points *)

\* the signature whose tunings a call of sigResult or wordResult lists
ApiStepSig ==
    IF apiCall.fn = "wordResult" THEN wordToSig(stringToNumbers(apiCall.query))
    ELSE apiCall.query

\* the triple <<l, m, s>> named by a formatted tuning
TuningSteps(tuning) == <<tuning[1], tuning[2], tuning[3]>>

\* C7: every tuning in the ed_tunings list returned by sigResult(sig, options)
\* and wordResult(word, options) has ed = l*n0 + m*n1 + s*n2 <= options.edBound
\* and its s-step within [options.sLower, options.sUpper] cents of the equave
\* options.equaveCents.
C7_EdTuningsObeyOptions ==
    (apiRet # <<>> /\ apiRet[1].outcome = "returns") =>
        \A k \in 1..Len(apiRet[1].ed_tunings) :
            ValidTriple(TuningSteps(apiRet[1].ed_tunings[k]),
                        [stepSig     |-> ApiStepSig,
                         edBound     |-> apiCall.options.edBound,
                         aberLower   |-> apiCall.options.sLower,
                         aberUpper   |-> apiCall.options.sUpper,
                         equaveCents |-> apiCall.options.equaveCents])

----------------------------------------------------------------------------
(* Properties of the filtered, sorted profiles of sigResult *)

FilteredProfiles == apiRet[1].profiles

SigResultReturned ==
    /\ apiRet # <<>>
    /\ apiCall.fn = "sigResult"
    /\ apiRet[1].outcome = "returns"

\* C15: with complexity = c > 0 every profile returned by sigResult has a
\* structure, whose complexity is c under "exactly" and at most c under
\* "at most".
C15_ProfilesObeyComplexityFilter ==
    (SigResultReturned /\ apiCall.options.complexity > 0) =>
        \A x \in 1..Len(FilteredProfiles) :
            /\ FilteredProfiles[x].structure # <<>>
            /\ IF apiCall.options.complexityConstraint = "exactly"
               THEN FilteredProfiles[x].structure[1].complexity
                        = apiCall.options.complexity
               ELSE FilteredProfiles[x].structure[1].complexity
                        <= apiCall.options.complexity

----------------------------------------------------------------------------
(* Properties of the guide frames *)

\* the counts of the classes among the k steps of w from the degree deg on
StackAt(w, deg, k) ==
    [c \in 0..2 |->
        Cardinality({ j \in 0..(k - 1) : w[((deg + j) % Len(w)) + 1] = c })]

Coprime(a, b) == \A d \in 2..a : ~(a % d = 0 /\ b % d = 0)

\* gs is the minimal period of the chain of n - 1 stacks of k steps from
\* the degree r on, and the closing stack differs from all of them
Regenerates(w, gs, k, r) ==
    LET n == Len(w)
        stack(i) == StackAt(w, r + i * k, k)
    IN  /\ \A i \in 0..(n - 2) : stack(i) = cvToObj(gs[(i % Len(gs)) + 1])
        /\ \A i \in 0..(n - 2) : stack(n - 1) # stack(i)
        /\ \A l \in 1..(Len(gs) - 1) :
               \E i \in 0..(n - 2) : stack(i) # stack(i % l)

\* C23: every guide frame of multiplicity 1 returned by guideFrames(w)
\* regenerates the scale: for some k in 2..n-2 coprime to n and some start
\* degree r, the n-1 stacks of k steps at r, r+k, ... are gs repeated, the
\* closing stack differs from each of them, and gs is the minimal period.
C23_SimpleFrameRegeneratesScale ==
    called = "guideFrames" =>
        \A x \in 1..Len(ret) :
            multiplicity(ret[x]) = 1 =>
                \E k \in 2..(Len(inWord) - 2), r \in 0..(Len(inWord) - 1) :
                    /\ Coprime(k, Len(inWord))
                    /\ Regenerates(inWord, ret[x].gs, k, r)

\* 0,0,1,0,1 has a frame of one generator and 0,0,1,0,2 one of two
C23_Witness ==
    /\ called = "guideFrames"
    /\ inWord = <<0, 0, 1, 0, 2>>
    /\ \E x \in 1..Len(ret) : multiplicity(ret[x]) = 1 /\ Len(ret[x].gs) = 2
    /\ \E x \in 1..Len(guideFrames(<<0, 0, 1, 0, 1>>)) :
           Len(guideFrames(<<0, 0, 1, 0, 1>>)[x].gs) = 1

\* C24: in every guide frame returned by guideFrames(w) the count vectors
\* of gs are pairwise distinct.
C24_GsPairwiseDistinct ==
    called = "guideFrames" =>
        \A x \in 1..Len(ret) :
            \A i, j \in 1..Len(ret[x].gs) :
                i # j => cvToObj(ret[x].gs[i]) # cvToObj(ret[x].gs[j])

\* C24 as the code has it: in every guide frame returned by guideFrames(w)
\* gs is not empty and is not a shorter sequence of count vectors repeated,
\* so a gs of several vectors holds at least two distinct ones.
C24_GsNotRepeated ==
    called = "guideFrames" =>
        \A x \in 1..Len(ret) :
            /\ Len(ret[x].gs) >= 1
            /\ \A l \in 1..(Len(ret[x].gs) - 1) :
                   Len(ret[x].gs) % l = 0 =>
                       \E i \in 0..(Len(ret[x].gs) - 1) :
                           cvToObj(At(ret[x].gs, i)) # cvToObj(At(ret[x].gs, i % l))

\* the first frame of 0,0,0,1,1 holds the vector of the steps 0,1 twice
C24_Witness ==
    /\ called = "guideFrames"
    /\ inWord = <<0, 0, 0, 1, 1>>
    /\ Len(ret[1].gs) = 3
    /\ cvToObj(ret[1].gs[2]) = cvToObj(ret[1].gs[3])
    /\ cvToObj(ret[1].gs[1]) # cvToObj(ret[1].gs[2])

\* two frames with the same count vectors, in the same order, as gs and
\* as polyoffset
SameFrame(f, g) ==
    /\ Len(f.gs) = Len(g.gs)
    /\ Len(f.polyoffset) = Len(g.polyoffset)
    /\ \A i \in 1..Len(f.gs) : cvToObj(f.gs[i]) = cvToObj(g.gs[i])
    /\ \A i \in 1..Len(f.polyoffset) :
           cvToObj(f.polyoffset[i]) = cvToObj(g.polyoffset[i])

\* C25: the list returned by guideFrames(w) is in non-decreasing order of
\* complexity |gs| * |polyoffset| and holds no two frames with value-equal
\* gs and polyoffset sequences.
C25_FramesSortedAndUnique ==
    called = "guideFrames" =>
        \A x, y \in 1..Len(ret) :
            x < y =>
                /\ Len(ret[x].gs) * Len(ret[x].polyoffset)
                       <= Len(ret[y].gs) * Len(ret[y].polyoffset)
                /\ ~SameFrame(ret[x], ret[y])

\* a word of which tryMultiple found more frames than guideFrames returns,
\* the returned frames being of several complexities
C25_Witness ==
    /\ called = "guideFrames"
    /\ Len(ret) < Len(multipleFrames(inWord, factorsOf(Len(inWord)), Len(inWord)))
    /\ \E x, y \in 1..Len(ret) :
           Len(ret[x].gs) * Len(ret[x].polyoffset)
               < Len(ret[y].gs) * Len(ret[y].polyoffset)

\* the count vector, as an object, of the letters of w at the degrees
\* from, from + 1, ..., from + count - 1 taken modulo the length of w
ChunkCounts(w, from, count) ==
    [c \in 0..2 |->
        Cardinality({t \in 0..(count - 1) : w[((from + t) % Len(w)) + 1] = c})]

\* the j-th group of m steps of the sub-scale of w that starts at degree i
SubScaleAt(w, m, i, j) == ChunkCounts(w, i + j * m, m)

\* the rotation amounts that turn the sub-scale starting at degree i into
\* the sub-scale starting at degree 0
Alignments(w, m, i) ==
    LET size == Len(w) \div m
    IN  { o \in 0..(size - 1) :
            \A j \in 0..(size - 1) :
                SubScaleAt(w, m, 0, j) = SubScaleAt(w, m, i, (j + o) % size) }

Least(S) == CHOOSE x \in S : \A y \in S : x <= y

\* frames is what the interleaved search of the m sub-scales of w gives: no
\* frame when a sub-scale is no rotation of the one at degree 0, and
\* otherwise one frame for every generator sequence of the sub-scale at
\* degree 0, its polyoffset the scale from degree 0 up to the aligned start
\* of every sub-scale, the shortest first
IsInterleavedSearch(frames, w, m) ==
    LET root == SubSeq(stackedKSteps(m, w), 1, Len(w) \div m)
        gsList == guidedGsListForSubscale(root)
        reach(i) == Least(Alignments(w, m, i)) * m + i
    IN  IF \E i \in 0..(m - 1) : Alignments(w, m, i) = {}
        THEN frames = <<>>
        ELSE /\ Len(frames) = Len(gsList)
             /\ \A x \in 1..Len(frames) :
                    /\ frames[x].gs = gsList[x]
                    /\ Len(frames[x].polyoffset) = m
                    /\ \A i \in 0..(m - 1) :
                           \E y \in 1..m :
                               cvToObj(frames[x].polyoffset[y])
                                   = ChunkCounts(w, 0, reach(i))
                    /\ \A y \in 1..(m - 1) :
                           len(frames[x].polyoffset[y])
                               <= len(frames[x].polyoffset[y + 1])

\* C26 as stated: tryMultiple(scale, m, k), m >= 2 a divisor of the length n
\* and 2 <= k <= n - 2, makes the interleaved search exactly when
\* gcd(k, n) = m and returns no frame otherwise.
C26_SearchIffGcdIsMultiplicity ==
    called = "tryMultiple" =>
        IF gcd(ret.k, Len(inWord)) = ret.multiplicity
        THEN IsInterleavedSearch(ret.frames, inWord, ret.multiplicity)
        ELSE ret.frames = <<>>

\* C26 as the code has it: tryMultiple(scale, m, k) makes the interleaved
\* search exactly when gcd(k, n) = m and n / m is no multiple of m, and
\* returns no frame otherwise.
C26_SearchIffGcdIsMultiplicityAndCoDNot ==
    called = "tryMultiple" =>
        IF /\ gcd(ret.k, Len(inWord)) = ret.multiplicity
           /\ (Len(inWord) \div ret.multiplicity) % ret.multiplicity # 0
        THEN IsInterleavedSearch(ret.frames, inWord, ret.multiplicity)
        ELSE ret.frames = <<>>

\* the search of the two sub-scales of a word of length 10 returned a frame
C26_Witness ==
    /\ called = "tryMultiple"
    /\ Len(inWord) = 10
    /\ ret.multiplicity = 2
    /\ ret.k = 4
    /\ ret.frames # <<>>
    /\ Len(ret.frames[1].polyoffset) = 2

----------------------------------------------------------------------------
(* Properties of the structure shown in a profile *)

RECURSIVE SumOfClass(_, _)
SumOfClass(vectors, c) ==
    IF vectors = <<>> THEN 0 ELSE Head(vectors)[c] + SumOfClass(Tail(vectors), c)

\* C21: in every profile with a structure, multiplicity is the length of
\* polyoffset, complexity is gs.length * multiplicity and aggregate is the
\* componentwise sum of the vectors of gs.
C21_StructureFieldsAgree ==
    SigResultReturned =>
        \A x \in 1..Len(FilteredProfiles) :
            FilteredProfiles[x].structure # <<>> =>
                LET structure == FilteredProfiles[x].structure[1]
                IN  /\ structure.multiplicity = Len(structure.polyoffset)
                    /\ structure.complexity
                           = Len(structure.gs) * structure.multiplicity
                    /\ \A c \in 0..2 :
                           structure.aggregate[c] = SumOfClass(structure.gs, c)

\* a profile of the signature 1,2,3 whose structure has three offsets
C21_Witness ==
    /\ SigResultReturned
    /\ \E x \in 1..Len(FilteredProfiles) :
           /\ FilteredProfiles[x].structure # <<>>
           /\ FilteredProfiles[x].structure[1].multiplicity = 3
           /\ FilteredProfiles[x].structure[1].complexity = 3
    /\ apiCall.query = <<1, 2, 3>>

----------------------------------------------------------------------------
(* Properties of the profile under rotation of the word *)

\* C27: the profile depends only on the necklace: wordToProfile of every
\* rotation of a word equals wordToProfile of the word in every field.
C27_ProfileOfRotationIsProfile ==
    called = "wordToProfile" =>
        \A r \in 0..(Len(inWord) - 1) :
            wordToProfile(rotate(inWord, r)) = ret

----------------------------------------------------------------------------
(* Properties of the scale selected on the results page *)

\* C29: whenever a signature query has finished, the selected scale belongs
\* to it: appState.profile is one of the profiles the query returned (the
\* profiles of the scale table), appState.word is the word of that profile
\* and appState.latticeBasis its lattice_basis; nothing is selected when
\* the query returned no scale.
C29_SelectionBelongsToLastSigQuery ==
    lastQuery.button = "sig" /\ ~hung =>
        IF tables.profiles = <<>>
        THEN appState.profile = <<>> /\ appState.word = <<>>
             /\ appState.latticeBasis = <<>>
        ELSE /\ appState.profile # <<>>
             /\ \E x \in 1..Len(tables.profiles) :
                    tables.profiles[x] = appState.profile[1]
             /\ appState.word = <<appState.profile[1].word>>
             /\ appState.latticeBasis = appState.profile[1].lattice_basis

----------------------------------------------------------------------------
(* Properties of absent values *)

ProfileFields ==
    {"word", "lattice_basis", "chirality", "reversed", "structure", "lm", "ms",
     "s0", "subst_l_ms", "subst_m_ls", "subst_s_lm", "mv"}

\* the profile of the word w: structure and lattice_basis are null or
\* present together, and null when w has no guide frame or no unimodular
\* basis
AbsentAsNull(profile, w) ==
    /\ DOMAIN profile = ProfileFields
    /\ (profile.structure = <<>>) <=> (profile.lattice_basis = <<>>)
    /\ profile.structure # <<>> =>
          /\ Len(profile.lattice_basis[1]) = 2
          /\ \E k \in 1..Len(guideFrames(w)) :
                 profile.structure[1] = guideFrameToResult(guideFrames(w)[k])
    /\ (guideFrames(w) = <<>>
        \/ getUnimodularBasis(guideFrames(w), wordToSig(w)) = <<>>)
          => (profile.structure = <<>> /\ profile.lattice_basis = <<>>)

\* a tuning <<l, m, s, ed>> of the signature within the default bounds
TuningFits(t, sig) ==
    /\ t[4] = t[1] * sig[1] + t[2] * sig[2] + t[3] * sig[3]
    /\ t[4] <= EDO_BOUND
    /\ S_LOWER_BOUND * t[4] <= 1200 * t[3]
    /\ 1200 * t[3] <= S_UPPER_BOUND * t[4]

\* C22: for every nonempty word over the classes 0, 1, 2 wordToProfile and
\* wordResult return; a word without guide frame or without unimodular
\* basis has structure and lattice_basis null, and ed_tunings is a list,
\* empty when no tuning fits the bounds (a listed tuning fits them).
C22_AbsencesAreValues ==
    /\ called = "wordToProfile" => AbsentAsNull(ret, inWord)
    /\ called = "wordResult" =>
          /\ ret.outcome = "returns"
          /\ AbsentAsNull(ret.profile, stringToNumbers(spelled(inWord)))
          /\ ret.ed_tunings # <<>> =>
                 /\ TuningFits(ret.ed_tunings[1],
                               wordToSig(stringToNumbers(spelled(inWord))))
                 /\ TuningFits(ret.ed_tunings[Len(ret.ed_tunings)],
                               wordToSig(stringToNumbers(spelled(inWord))))

\* LLLss has guide frames, no unimodular basis, and tunings
C22_Witness ==
    /\ called = "wordResult"
    /\ inWord = <<0, 0, 0, 2, 2>>
    /\ stringToNumbers(spelled(inWord)) = <<0, 0, 0, 1, 1>>
    /\ guideFrames(<<0, 0, 0, 1, 1>>) # <<>>
    /\ ret.profile.structure = <<>>
    /\ ret.profile.lattice_basis = <<>>
    /\ ret.ed_tunings # <<>>

----------------------------------------------------------------------------
(* Properties of the results page *)

\* a signature input with 0 total steps or more than RANK_LIMIT nonzero counts
BadSigInput(tokens) ==
    \/ SumSeq(tokens) = 0
    \/ Cardinality({ x \in 1..Len(tokens) : tokens[x] > 0 }) > RANK_LIMIT

\* a word input that is empty or has more than RANK_LIMIT distinct letters
BadWordInput(word) ==
    \/ word = <<>>
    \/ Cardinality({ word[x] : x \in 1..Len(word) }) > RANK_LIMIT

BadInput(query) ==
    \/ query.button = "sig" /\ BadSigInput(query.input)
    \/ query.button = "word" /\ BadWordInput(query.input)

\* C8: a click on either query button whose input is empty (a signature of 0
\* total steps, an empty word) or has more than 3 step classes makes no call
\* of the library and leaves a message on the status line.
C8_BadInputRejected ==
    [][(clicks' = clicks + 1 /\ BadInput(lastQuery'))
        => (libCalls' = libCalls /\ status' \notin {"", "Computing..."})]_vars

====
